---- MODULE Spec2Model ----
(***************************************************************************)
(* The earn-wallet cascade leverage bot of src/main.py                     *)
(* (EarnWalletLeverageBot and the Flask routes that drive it).             *)
(*                                                                         *)
(* Units.  Money is counted in cents (1500 = 15 USD).  A quantity of an    *)
(* asset is counted in the finest unit round(q, 6) distinguishes, and a    *)
(* price is the number of cents one such unit costs.  A loan-to-value      *)
(* ratio and an interest rate are counted in basis points (8500 = 0.85);   *)
(* a configured ltv_max is counted in percent (65 = 0.65).  Divisions      *)
(* that the code does in floating point are done here on integers, and     *)
(* a comparison with a threshold is exact: floor(10^4 x) >= 8500 exactly   *)
(* when x >= 0.85.                                                         *)
(*                                                                         *)
(* Threads.  POST /start runs start_trading on a fresh thread, inside      *)
(* asyncio.run; POST /stop runs stop_trading on the HTTP thread.  The      *)
(* two share the bot's fields without a lock, so every step of one may     *)
(* fall between two steps of the other.  A step of the model is one        *)
(* request to the exchange together with the code that handles its reply.  *)
(* asyncio.run (Python 3.8 and later) cancels the tasks that are left      *)
(* when its main coroutine returns: the monitoring task that               *)
(* start_trading creates runs up to its first suspension and is then       *)
(* cancelled there, CancelledError not being an Exception.                 *)
(*                                                                         *)
(* Specifications.  Spec is the bot with one POST /start and any number    *)
(* of POST /stop.  TwoStartsSpec adds a second POST /start, RestartSpec    *)
(* the restarts of the process, BalancesSpec the GET /balances route, the  *)
(* first and the last for a bot in margin-only mode; ApiSpec is a call of  *)
(* BinanceAPI._make_request on its own.  StatusSpec, SignSpec and          *)
(* UnwindSpec look at a routine on its own as well: get_portfolio_status,  *)
(* _generate_signature, and the unwinding of one position by               *)
(* _close_earn_position or _emergency_liquidate_position.                  *)
(* StopLoopSpec is the loop of stop_trading over the positions held, and   *)
(* LoanAssetSpec a call of _get_optimal_loan_asset, each on its own.       *)
(***************************************************************************)
EXTENDS Integers, Sequences, FiniteSets, TLC

(***************************************************************************)
(* Bounds of the model.                                                    *)
(***************************************************************************)
\* Requests in one behaviour that the exchange answers with an error; a
\* close of stop_trading counts as one request.
MaxErrors == 2

\* Constructions of the bot in one behaviour: the first, and the restarts of
\* the process.
MaxBoots == 2

\* Starting capitals an operator posts to /start, in cents.
Capitals == {1000, 4000, 10000}

\* The symbols the exchange's ticker lists against USDT.
Listed == {"USDC", "BTC", "ETH", "BNB"}

\* Ticker replies: the price of each listed symbol.
Ticker(usdc, btc, eth, bnb) ==
    [a \in Listed |-> CASE a = "USDC" -> usdc
                        [] a = "BTC" -> btc
                        [] a = "ETH" -> eth
                        [] OTHER -> bnb]

Markets == {Ticker(10, 10, 10, 10), Ticker(10, 7, 6, 10)}

\* LOT_SIZE filters the exchange reports for a symbol (exchangeInfo).
LotSizes == {[found |-> TRUE, stepSize |-> 100, minQty |-> 200, maxQty |-> 900]}

\* currentLTV values the exchange reports for an ongoing loan order.
ExchangeLtvs == {8000, 9000}

(***************************************************************************)
(* Program constants.                                                      *)
(***************************************************************************)
max_cascade_levels == 3

emergency_ltv == 8500

warning_ltv == 7500

\* The capital floor of the cascade loop: 15 USD.
capital_floor == 1500

\* The 15% safety buffer: max_loan = capital * max_ltv * 0.85.
safety_factor == 85

\* The rate _get_optimal_loan_asset falls back to (0.10), and the margin rate.
default_loan_rate == 1000

\* The penalty on a loan asset other than USDT and USDC (0.02).
rate_penalty == 200

use_margin_fallback == TRUE

\* asset_config, in the order of the dict literal.
ConfigOrder ==
    <<"BTC", "ETH", "BNB", "USDT", "USDC", "ADA", "DOT", "LINK", "AVAX", "MATIC", "SOL">>

ConfigAssets == {ConfigOrder[i] : i \in 1..Len(ConfigOrder)}

\* AssetConfig.ltv_max, in percent.
ltv_max(a) ==
    CASE a = "BTC" -> 65 [] a = "ETH" -> 60 [] a = "BNB" -> 55
      [] a = "USDT" -> 70 [] a = "USDC" -> 70 [] a = "ADA" -> 50
      [] a = "DOT" -> 45 [] a = "LINK" -> 40 [] a = "AVAX" -> 45
      [] a = "MATIC" -> 40 [] OTHER -> 50

\* AssetConfig.volatility_factor, in hundredths.
volatility_factor(a) ==
    CASE a = "BTC" -> 25 [] a = "ETH" -> 30 [] a = "BNB" -> 35
      [] a = "USDT" -> 10 [] a = "USDC" -> 10 [] a = "ADA" -> 50
      [] a = "DOT" -> 55 [] a = "LINK" -> 60 [] a = "AVAX" -> 52
      [] a = "MATIC" -> 58 [] OTHER -> 48

borrowing_assets == <<"USDT", "USDC", "BUSD", "DAI", "TUSD">>

(***************************************************************************)
(* Replies of the exchange that the bot caches.                            *)
(***************************************************************************)
\* _load_savings_products_fallback: every configured asset but USDT, with a
\* placeholder product id.
FallbackProducts == [a \in ConfigAssets \ {"USDT"} |-> "id"]

\* savings_products_cache after construction: asset -> "id" (the product has
\* a productId) or "noid" (it has none).
SavingsTables ==
    {FallbackProducts, [a \in {"BTC", "ETH", "BNB"} |-> IF a = "ETH" THEN "noid" ELSE "id"]}

\* A row of loan_data_cache: the yearly rate and the limits of a pair.
LoanRow(rate, lo, hi) == [yearly_rate |-> rate, min_limit |-> lo, max_limit |-> hi]

\* What _load_loan_data gets: loans is the new loan_data_cache, <<collateral,
\* loan asset>> -> row; collateral is the collateral data, asset ->
\* initial_ltv in percent.  The first is what it gets when every request
\* fails or lists nothing.
LoanData ==
    {[loans |-> [k \in {} |-> LoanRow(0, 0, 0)], collateral |-> [a \in {} |-> 0]],
     [loans |-> [k \in {<<"BTC", "USDT">>, <<"BTC", "USDC">>, <<"ETH", "DAI">>} |->
                    CASE k = <<"BTC", "USDT">> -> LoanRow(800, 1000, 100000)
                      [] k = <<"BTC", "USDC">> -> LoanRow(500, 1000, 100000)
                      [] OTHER -> LoanRow(300, 1000, 100000)],
      collateral |-> [a \in {"BTC"} |-> 78]]}

(***************************************************************************)
(* Pure helpers.                                                           *)
(***************************************************************************)
Min(a, b) == IF a < b THEN a ELSE b

\* The reply {"error": ...} of BinanceAPI._make_request, as the callers test
\* it: "error" in reply.
IsError(reply) == reply = "error"

Replies == {"ok", "error"}

\* round(num / den, 6): to the nearest unit, a tie to the even one.
RoundQuantity(num, den) ==
    LET q == num \div den
        r == num % den
    IN  IF 2 * r < den THEN q
        ELSE IF 2 * r > den THEN q + 1
        ELSE IF q % 2 = 0 THEN q ELSE q + 1

\* What _get_symbol_info finds: the LOT_SIZE filter of the symbol, or nothing
\* (exchangeInfo failed or does not list the symbol).
NoSymbolInfo == [found |-> FALSE]

SymbolInfos == LotSizes \cup {NoSymbolInfo}

\* _format_quantity on the quantity num / den: clamped to [minQty, maxQty] and
\* cut down to a multiple of stepSize, or round(quantity, 6) without a filter.
_format_quantity(info, num, den) ==
    IF ~info.found THEN RoundQuantity(num, den)
    ELSE IF num < info.minQty * den THEN (info.minQty \div info.stepSize) * info.stepSize
    ELSE IF num > info.maxQty * den THEN (info.maxQty \div info.stepSize) * info.stepSize
    ELSE (num \div (den * info.stepSize)) * info.stepSize

\* _get_asset_price: 1.0 for USDT, the cached price, else the fallback ticker
\* call, which fails for a symbol the exchange does not list.
_get_asset_price(cache, a) ==
    IF a = "USDT" THEN 1
    ELSE IF a \in DOMAIN cache THEN cache[a]
    ELSE 0

\* The loop of _get_optimal_loan_asset over borrowing_assets[i..]: best is
\* <<asset, effective rate>> so far, <<>> when there is none.
RECURSIVE BestLoanFrom(_, _, _, _, _)
BestLoanFrom(loans, collateral, amount, i, best) ==
    IF i > Len(borrowing_assets) THEN best
    ELSE LET la == borrowing_assets[i]
             key == <<collateral, la>>
         IN  IF key \in DOMAIN loans
                /\ loans[key].min_limit <= amount
                /\ amount <= loans[key].max_limit
             THEN LET eff == loans[key].yearly_rate
                               + (IF la \in {"USDT", "USDC"} THEN 0 ELSE rate_penalty)
                  IN  IF best = <<>> \/ eff < best[2]
                      THEN BestLoanFrom(loans, collateral, amount, i + 1, <<la, eff>>)
                      ELSE BestLoanFrom(loans, collateral, amount, i + 1, best)
             ELSE BestLoanFrom(loans, collateral, amount, i + 1, best)

\* The qualifying asset with the lowest listed rate, the penalty left out.
LowestListedRate(loans, collateral, amount) ==
    LET qualifying == {i \in 1..Len(borrowing_assets) :
                          /\ <<collateral, borrowing_assets[i]>> \in DOMAIN loans
                          /\ loans[<<collateral, borrowing_assets[i]>>].min_limit <= amount
                          /\ amount <= loans[<<collateral, borrowing_assets[i]>>].max_limit}
        rate(i) == loans[<<collateral, borrowing_assets[i]>>].yearly_rate
    IN  IF qualifying = {} THEN <<"USDT", default_loan_rate>>
        ELSE LET i == CHOOSE i \in qualifying :
                         \A j \in qualifying : rate(i) < rate(j) \/ (rate(i) = rate(j) /\ i <= j)
             IN  <<borrowing_assets[i], rate(i)>>

_get_optimal_loan_asset(loans, collateral, amount) ==
    LET best == BestLoanFrom(loans, collateral, amount, 1, <<>>)
    IN  IF best # <<>> THEN best ELSE <<"USDT", default_loan_rate>>

\* Stable insertion of an asset into a list sorted by volatility_factor.
RECURSIVE InsertByVolatility(_, _)
InsertByVolatility(sorted, a) ==
    IF sorted = <<>> THEN <<a>>
    ELSE IF volatility_factor(a) < volatility_factor(Head(sorted))
         THEN <<a>> \o sorted
         ELSE <<Head(sorted)>> \o InsertByVolatility(Tail(sorted), a)

\* available_assets.sort(key=lambda x: x[1].volatility_factor) over
\* list[1..n]: a stable sort.
RECURSIVE SortByVolatility(_, _)
SortByVolatility(list, n) ==
    IF n = 0 THEN <<>>
    ELSE InsertByVolatility(SortByVolatility(list, n - 1), list[n])

\* The filter of _execute_earn_cascade_strategy on one configured asset.
IsAvailable(cache, savings, margin_only, a) ==
    /\ a # "USDT"
    /\ _get_asset_price(cache, a) > 0
    /\ (margin_only \/ a \in DOMAIN savings)

\* available_assets before the sort: ConfigOrder[1..n] filtered.
RECURSIVE FilterAvailable(_, _, _, _)
FilterAvailable(cache, savings, margin_only, n) ==
    IF n = 0 THEN <<>>
    ELSE LET rest == FilterAvailable(cache, savings, margin_only, n - 1)
         IN  IF IsAvailable(cache, savings, margin_only, ConfigOrder[n])
             THEN Append(rest, ConfigOrder[n])
             ELSE rest

\* The available assets in the order of asset_config, without the sort.
AvailableUnsorted(cache, savings, margin_only) ==
    FilterAvailable(cache, savings, margin_only, Len(ConfigOrder))

AvailableAssets(cache, savings, margin_only) ==
    LET list == FilterAvailable(cache, savings, margin_only, Len(ConfigOrder))
    IN  SortByVolatility(list, Len(list))

\* A range over every available asset, without the cap.
CascadeLevelsUncapped(avail) == Len(avail)

\* range(min(self.max_cascade_levels, len(available_assets)))
CascadeLevels(avail) == Min(max_cascade_levels, Len(avail))

\* A loop without the capital floor.
CapitalNeverTooLow(capital) == FALSE

\* if current_capital < 15: break
CapitalTooLow(capital) == capital < capital_floor

\* max_ltv of a level, in percent: the exchange's initial_ltv when cached,
\* else the configured ltv_max.
MaxLtv(collateral, a) == IF a \in DOMAIN collateral THEN collateral[a] ELSE ltv_max(a)

\* max_loan = current_capital * max_ltv * 0.85
MaxLoan(capital, ltv_pct) == (capital * ltv_pct * safety_factor) \div (100 * 100)

\* loan / collateral value in basis points (collateral value > 0).
Ltv(loan_usd, collateral_value) == (loan_usd * 100 * 100) \div collateral_value

\* if success and actual_loan > 0
LevelSucceeded(ret) == ret.success /\ ret.loan > 0

\* A pass that liquidates from the warning threshold on.
EmergencyAtWarning(ltv) == ltv >= warning_ltv

\* if position.current_ltv >= self.emergency_ltv
EmergencyReached(ltv) == ltv >= emergency_ltv

\* elif position.current_ltv >= self.warning_ltv
WarningReached(ltv) == ltv >= warning_ltv

(***************************************************************************)
(* BinanceAPI._make_request.  A parameter map is the sequence of its       *)
(* <<key, value>> pairs in insertion order, as a dict keeps them; a value   *)
(* is the string that f"{v}" and the HTTP library both make of it.          *)
(***************************************************************************)
\* self.api_key and self.api_secret of a bot that has its credentials.
api_key == "key"

api_secret == "secret"

\* Endpoints that callers name: two public ones and two others.
Endpoints ==
    {"/api/v3/ping", "/api/v3/ticker/price", "/api/v3/account", "/api/v3/order"}

\* self.public_endpoints.
public_endpoints ==
    {"/api/v3/ping", "/api/v3/time", "/api/v3/ticker/price", "/api/v3/exchangeInfo",
     "/sapi/v1/loan/flexible/data"}

\* The methods of a call: the three the code knows and one it does not.
Methods == {"GET", "POST", "DELETE", "PUT"}

\* Parameter maps as the callers build them: none, that of get_symbol_price
\* and that of margin_borrow.
ParamMaps ==
    {<<>>, <<<<"symbol", "BTCUSDT">>>>, <<<<"asset", "USDT">>, <<"amount", "23.8">>>>}

\* require_auth: not given, or given.
RequireAuths == {<<>>, <<TRUE>>, <<FALSE>>}

\* int(time.time() * 1000) at the call.
Clock == {1000, 61000}

\* The bodies of a response: a JSON object with msg and code, another JSON
\* object, a JSON array, and text that is not JSON.
Bodies == {"object_msg", "object", "array", "text"}

\* What the HTTP library does with the request: it raises, or it returns a
\* response.
Outcomes ==
    {[raises |-> e, status |-> 0, body |-> "text"] :
        e \in {"Timeout", "ConnectionError", "SSLError"}}
    \cup {[raises |-> "none", status |-> st, body |-> b] :
            st \in {200, 400, 500}, b \in Bodies}

\* recvWindow of a signed call.
recv_window == 60000

\* params[k] = v on a dict: the value replaced in place, or the pair added.
SetItem(params, k, v) ==
    IF \E i \in 1..Len(params) : params[i][1] = k
    THEN [i \in 1..Len(params) |-> IF params[i][1] = k THEN <<k, v>> ELSE params[i]]
    ELSE Append(params, <<k, v>>)

\* '&'.join([f"{k}={v}" for k, v in params.items()]).
RECURSIVE QueryString(_)
QueryString(params) ==
    IF params = <<>> THEN ""
    ELSE LET item == params[1][1] \o "=" \o params[1][2]
         IN  IF Len(params) = 1 THEN item
             ELSE item \o "&" \o QueryString(Tail(params))

\* _generate_signature: the HMAC-SHA256 of the query string under the
\* secret, kept as the pair it is a function of.
_generate_signature(secret, query_string) ==
    "hmac(" \o secret \o "," \o query_string \o ")"

\* A call that signs whatever the endpoint is.
RequiresAuthAlways(endpoint, require_auth) == TRUE

\* require_auth as _make_request settles it.
RequiresAuth(endpoint, require_auth) ==
    IF require_auth = <<>> THEN endpoint \notin public_endpoints ELSE require_auth[1]

\* The parameters and the headers that _make_request hands to the HTTP
\* library.
Prepared(endpoint, params, require_auth, now) ==
    IF RequiresAuth(endpoint, require_auth)
    THEN LET stamped == SetItem(SetItem(params, "timestamp", ToString(now)),
                                "recvWindow", ToString(recv_window))
         IN  [params |-> SetItem(stamped, "signature",
                            _generate_signature(api_secret, QueryString(stamped))),
              headers |-> {<<"X-MBX-APIKEY", api_key>>}]
    ELSE [params |-> params, headers |-> {}]

\* What a step of _make_request comes to: a value it returns, or an
\* exception on its way up.
Returns(value) == [raised |-> "none", value |-> value]

Raised(exception) == [raised |-> exception, value |-> [parsed |-> FALSE, keys |-> {}]]

\* The dict of an error, by its keys, and the parsed body of a response.
ErrorDict(error, keys) == [parsed |-> FALSE, error |-> error, keys |-> keys]

ParsedBody(body) == [parsed |-> TRUE, body |-> body, keys |-> {}]

\* response.json().
ResponseJson(body) ==
    IF body = "text" THEN Raised("JSONDecodeError") ELSE Returns(ParsedBody(body))

\* The branch of a response that is not 200: error_data.get on a body that
\* is no object raises AttributeError, and the bare except gives the short
\* dict, as it does for a body that is not JSON.
NotOk(status, body) ==
    LET error_data == ResponseJson(body)
    IN  IF error_data.raised = "none" /\ body \in {"object_msg", "object"}
        THEN Returns(ErrorDict("HTTP", {"error", "message", "code"}))
        ELSE Returns(ErrorDict("HTTP", {"error", "message"}))

\* The try block: with a method that is none of the three, `response` is not
\* bound and its first use raises UnboundLocalError.
TryBlock(method, outcome) ==
    IF method \notin {"GET", "POST", "DELETE"} THEN Raised("UnboundLocalError")
    ELSE IF outcome.raises # "none" THEN Raised(outcome.raises)
    ELSE IF outcome.status = 200 THEN ResponseJson(outcome.body)
    ELSE NotOk(outcome.status, outcome.body)

\* Except clauses that catch the two network exceptions only.
ExceptNetworkOnly(exception) ==
    IF exception = "Timeout" THEN Returns(ErrorDict("timeout", {"error", "message"}))
    ELSE IF exception = "ConnectionError"
         THEN Returns(ErrorDict("connection", {"error", "message"}))
    ELSE Raised(exception)

\* The except clauses of _make_request: Timeout, ConnectionError, Exception.
Except(exception) ==
    IF exception = "Timeout" THEN Returns(ErrorDict("timeout", {"error", "message"}))
    ELSE IF exception = "ConnectionError"
         THEN Returns(ErrorDict("connection", {"error", "message"}))
    ELSE Returns(ErrorDict("exception", {"error", "message"}))

\* _make_request from the try statement on.
_make_request(method, outcome) ==
    LET tried == TryBlock(method, outcome)
    IN  IF tried.raised = "none" THEN tried ELSE Except(tried.raised)

\* Whether the HTTP library was called at all.
RequestSent(method) == method \in {"GET", "POST", "DELETE"}

(***************************************************************************)
(* State.                                                                  *)
(***************************************************************************)
VARIABLES
    positions,              \* self.positions: the list of Position records
    total_capital,          \* self.total_capital
    leveraged_capital,      \* self.leveraged_capital
    is_running,             \* self.is_running
    bot_status,             \* self.bot_status
    price_cache,            \* self.price_cache: asset -> price
    savings_products_cache, \* self.savings_products_cache
    loan_data_cache,        \* self.loan_data_cache
    collateral_data_cache,  \* self.collateral_data_cache
    use_margin_only,        \* self.use_margin_only
    positions_file,         \* the content of positions.json
    th,                     \* the trading thread: its place and its locals
    stopper,                \* the HTTP thread inside stop_trading
    run_log,                \* history: the levels of the current cascade run
    liquidations,           \* history: the liquidations of the current pass
    started,                \* whether POST /start has been served
    again,                  \* whether a second POST /start has been served
    boots,                  \* how many times the bot has been constructed
    errors,                 \* error replies of the exchange so far
    total_yield,            \* self.total_yield
    response,               \* what the step just taken answered to an HTTP request
    api_call,               \* the last call of _make_request looked at on its own
    calls                   \* calls of routines that ask the exchange nothing, each on its own

vars ==
    <<positions, total_capital, leveraged_capital, is_running, bot_status,
      price_cache, savings_products_cache, loan_data_cache, collateral_data_cache,
      use_margin_only, positions_file, th, stopper, run_log, liquidations,
      started, again, boots, errors, total_yield, response, api_call,
      calls>>

\* The fields of the bot that only __init__ sets.
bot_config == <<savings_products_cache, use_margin_only>>

counters == <<total_capital, leveraged_capital>>

control == <<is_running, bot_status>>

caches == <<price_cache, loan_data_cache, collateral_data_cache>>

http == <<stopper, started, again, boots>>

\* The field of the bot that only __init__ and stop_trading set.
outside_trading == <<total_yield>>

\* The JSON a route answers with, reduced to its success field; the answer
\* of the server when a route raises, which is not JSON; and the value of
\* response after a step that answered no request.
Json(route, success) == [route |-> route, json |-> TRUE, success |-> success]

ServerError(route) == [route |-> route, json |-> FALSE, success |-> FALSE]

NoResponse == [route |-> "none", json |-> FALSE, success |-> FALSE]

\* What _save_positions writes.
Snapshot(pos, total, leveraged, running, status) ==
    [positions |-> pos, total_capital |-> total, leveraged_capital |-> leveraged,
     is_running |-> running, bot_status |-> status]

\* A Position record as _execute_earn_level builds it.
Position(asset, qty, loan_amount, loan_asset, ltv, level, product, order, rate, price) ==
    [asset |-> asset, collateral_amount |-> qty, loan_amount |-> loan_amount,
     loan_asset |-> loan_asset, current_ltv |-> ltv, level |-> level,
     earn_product_id |-> product, loan_order_id |-> order,
     loan_rate |-> rate, entry_price |-> price]

\* The locals of the trading thread: of start_trading, of the cascade loop, of
\* the level in progress and of the monitoring pass.
Thread(pc, capital) ==
    [pc |-> pc, capital |-> capital, current_capital |-> capital, level |-> 0,
     avail |-> <<>>, asset |-> "", max_loan |-> 0, price |-> 0, quantity |-> 0,
     loan_asset |-> "", loan_rate |-> 0, product_id |-> "none", deposited |-> FALSE,
     loan_amount |-> 0, loan_usd |-> 0, ret |-> [success |-> FALSE, loan |-> 0],
     leveraged_read |-> 0, idx |-> 0]

\* The trading thread when no start_trading is running.
IdleThread == Thread("idle", 0)

\* The HTTP thread outside stop_trading.  Inside it, todo is what is left of
\* the copy of the list; quiet and failed are history: whether no /start was
\* served and no trading thread was alive since stop_trading began, and
\* whether a request of a close was answered with an error.
IdleStopper == [pc |-> "idle", todo |-> <<>>, quiet |-> FALSE, failed |-> FALSE]

\* The bot as __init__ leaves it when positions.json does not exist.  The
\* file is a list: empty when there is no file, else its one snapshot.
Init ==
    /\ positions = <<>>
    /\ total_capital = 0
    /\ leveraged_capital = 0
    /\ is_running = FALSE
    /\ bot_status = "Stopped"
    /\ price_cache = Ticker(10, 10, 10, 10)
    /\ \E mode \in {"earn", "margin"} :
          /\ use_margin_only = (mode = "margin")
          /\ savings_products_cache \in
                (IF mode = "margin" THEN {FallbackProducts} ELSE SavingsTables)
    /\ loan_data_cache = [k \in {} |-> LoanRow(0, 0, 0)]
    /\ collateral_data_cache = [a \in {} |-> 0]
    /\ positions_file = <<>>
    /\ th = IdleThread
    /\ stopper = IdleStopper
    /\ run_log = <<>>
    /\ liquidations = <<>>
    /\ started = FALSE
    /\ again = FALSE
    /\ boots = 1
    /\ errors = 0
    /\ total_yield = 0
    /\ response = NoResponse
    /\ api_call = <<>>
    /\ calls = <<>>

(***************************************************************************)
(* History kept for the properties: the requests of each level.            *)
(***************************************************************************)
\* The entry of a level that the cascade loop starts.
LevelEntry(level, asset, capital, max_loan) ==
    [level |-> level, asset |-> asset, capital |-> capital, max_loan |-> max_loan,
     reqs |-> <<>>, done |-> FALSE, success |-> FALSE, loan |-> 0, appended |-> FALSE]

\* run_log with a request of the level in progress added.
Logged(log, req, reply, qty) ==
    [log EXCEPT ![Len(log)].reqs =
        Append(@, [req |-> req, ok |-> ~IsError(reply), qty |-> qty])]

\* run_log with the level in progress returned.
Returned(log, success, loan, appended) ==
    [log EXCEPT ![Len(log)].done = TRUE, ![Len(log)].success = success,
                ![Len(log)].loan = loan, ![Len(log)].appended = appended]

\* The thread after `return success, loan` of _execute_earn_level.
AfterReturn(t, success, loan) ==
    [t EXCEPT !.pc = "after_level", !.ret = [success |-> success, loan |-> loan]]

(***************************************************************************)
(* The exchange: what it may answer to a request.  An exchangeInfo request *)
(* that gives no LOT_SIZE filter counts as an error reply.                 *)
(***************************************************************************)
Errs(reply) == IF IsError(reply) THEN 1 ELSE 0

InfoErrs(info) == IF info.found THEN 0 ELSE 1

\* An except clause of start_trading that leaves the status as it finds it.
StatusKeptAfterFailure(status) == status

\* self.bot_status = f"Error: {str(e)}" of start_trading's except clause:
\* the status is kept up to the prefix that every such status has.
StatusAfterFailure(status) == "Error:"

\* The bot_status field of what GET /status answers: get_portfolio_status
\* copies self.bot_status.
StatusAnswer(status) == status

\* The replies the error budget still allows, and the count after them.
Allowed(n) == errors + n <= MaxErrors

(***************************************************************************)
(* POST /start and start_trading.                                          *)
(***************************************************************************)
\* The /start route: a new thread runs asyncio.run(bot.start_trading(capital)).
\* A behaviour of the model has one such request.
HttpStart ==
    /\ ~started
    /\ started' = TRUE
    /\ \E capital \in Capitals : th' = Thread("validate", capital)
    /\ response' = Json("/start", TRUE)
    /\ stopper' = [stopper EXCEPT !.quiet = FALSE]
    /\ UNCHANGED <<positions, counters, control, caches, bot_config, api_call, calls, outside_trading,
                   positions_file, run_log, liquidations, errors, again, boots>>

\* A second POST /start if the route refused a bot that holds positions or
\* is running.
HttpStartAgainGuarded ==
    /\ started /\ ~again
    /\ th.pc = "idle"
    /\ positions = <<>> /\ ~is_running
    /\ again' = TRUE
    /\ \E capital \in Capitals : th' = Thread("validate", capital)
    /\ response' = Json("/start", TRUE)
    /\ stopper' = [stopper EXCEPT !.quiet = FALSE]
    /\ UNCHANGED <<positions, counters, control, caches, bot_config, api_call, calls, outside_trading,
                   positions_file, run_log, liquidations, errors, started, boots>>

\* A second POST /start: the route looks neither at the positions nor at
\* is_running, and start_trading runs on another new thread.  It is served
\* here when the thread of the first request has ended, once in a behaviour.
HttpStartAgain ==
    /\ started /\ ~again
    /\ th.pc = "idle"
    /\ again' = TRUE
    /\ \E capital \in Capitals : th' = Thread("validate", capital)
    /\ response' = Json("/start", TRUE)
    /\ stopper' = [stopper EXCEPT !.quiet = FALSE]
    /\ UNCHANGED <<positions, counters, control, caches, bot_config, api_call, calls, outside_trading,
                   positions_file, run_log, liquidations, errors, started, boots>>

\* A start_trading that records the capital and the flag before its
\* account checks, and whose checks then fail.
StartValidateAssignsFirst ==
    /\ th.pc = "validate"
    /\ total_capital' = th.capital
    /\ is_running' = TRUE
    /\ bot_status' = StatusAfterFailure(bot_status)
    /\ positions_file' =
          <<Snapshot(positions, total_capital', leveraged_capital, is_running',
                     bot_status')>>
    /\ th' = IdleThread
    /\ UNCHANGED <<positions, leveraged_capital, caches, bot_config, api_call, calls,
                   outside_trading, http, run_log, liquidations, errors>>
    /\ response' = NoResponse

\* start_trading up to the cascade: the account checks, then the reload of
\* the price cache and of the loan data.  A failed check raises: the except
\* clause sets the status, saves and re-raises, which ends the thread.
StartValidate ==
    /\ th.pc = "validate"
    /\ \E account \in {"ok", "rejected"} :
          IF account = "rejected"
          THEN /\ bot_status' = StatusAfterFailure(bot_status)
               /\ positions_file' =
                     <<Snapshot(positions, total_capital, leveraged_capital,
                                is_running, bot_status')>>
               /\ th' = IdleThread
               /\ UNCHANGED <<total_capital, is_running, caches, errors>>
          ELSE /\ total_capital' = th.capital
               /\ is_running' = TRUE
               /\ bot_status' = "Executing Earn Strategy"
               /\ \E reply \in Replies, tick \in Markets :
                     /\ Allowed(Errs(reply))
                     /\ errors' = errors + Errs(reply)
                     /\ price_cache' = IF IsError(reply) THEN price_cache ELSE tick
               /\ \E data \in LoanData :
                     /\ loan_data_cache' = data.loans
                     /\ collateral_data_cache' =
                           IF DOMAIN data.collateral = {} THEN collateral_data_cache
                           ELSE data.collateral
               /\ th' = [th EXCEPT !.pc = "cascade"]
               /\ UNCHANGED positions_file
    /\ UNCHANGED <<positions, leveraged_capital, bot_config, api_call, calls, outside_trading, http, run_log, liquidations>>
    /\ response' = NoResponse

(***************************************************************************)
(* _execute_earn_cascade_strategy.                                         *)
(***************************************************************************)
\* What the steps of the cascade loop leave alone.
LoopVars ==
    <<positions, counters, control, caches, bot_config, api_call, calls, outside_trading, positions_file, http,
      liquidations, errors>>

\* The asset filter and the sort; with no asset the cascade raises, and
\* start_trading's except clause sets the status, saves and re-raises.
CascadeBegin ==
    /\ th.pc = "cascade"
    /\ LET avail == AvailableAssets(price_cache, savings_products_cache, use_margin_only)
       IN  IF avail = <<>>
           THEN /\ bot_status' = StatusAfterFailure(bot_status)
                /\ positions_file' =
                      <<Snapshot(positions, total_capital, leveraged_capital,
                                 is_running, bot_status')>>
                /\ th' = IdleThread
           ELSE /\ th' = [th EXCEPT !.pc = "loop", !.avail = avail]
                /\ UNCHANGED <<bot_status, positions_file>>
    /\ UNCHANGED <<positions, counters, is_running, caches, bot_config, api_call, calls, outside_trading, http, run_log,
                   liquidations, errors>>
    /\ response' = NoResponse

\* The head of the for loop: the range, the capital floor, max_ltv and max_loan.
CascadeLoopHead ==
    /\ th.pc = "loop"
    /\ IF th.level >= CascadeLevels(th.avail) \/ CapitalTooLow(th.current_capital)
       THEN /\ th' = [th EXCEPT !.pc = "cascade_done"]
            /\ UNCHANGED run_log
       ELSE LET asset == th.avail[th.level + 1]
                max_loan == MaxLoan(th.current_capital,
                                    MaxLtv(collateral_data_cache, asset))
            IN  /\ th' = [Thread("level", th.capital) EXCEPT
                                    !.current_capital = th.current_capital,
                                    !.level = th.level, !.avail = th.avail,
                                    !.asset = asset, !.max_loan = max_loan]
                /\ run_log' = Append(run_log,
                      LevelEntry(th.level + 1, asset, th.current_capital, max_loan))
    /\ UNCHANGED LoopVars
    /\ response' = NoResponse

\* After a level: the capital of the next level, or the break.  The read of
\* leveraged_capital for `+=` is here, its write is the next step.
CascadeAfterLevel ==
    /\ th.pc = "after_level"
    /\ th' = IF LevelSucceeded(th.ret)
             THEN [th EXCEPT !.pc = "add_leveraged", !.current_capital = th.ret.loan,
                             !.leveraged_read = leveraged_capital]
             ELSE [th EXCEPT !.pc = "cascade_done"]
    /\ UNCHANGED run_log
    /\ UNCHANGED LoopVars
    /\ response' = NoResponse

\* self.leveraged_capital += actual_loan: the write; then the next iteration.
CascadeAddLeveraged ==
    /\ th.pc = "add_leveraged"
    /\ leveraged_capital' = th.leveraged_read + th.ret.loan
    /\ th' = [th EXCEPT !.pc = "loop", !.level = th.level + 1, !.leveraged_read = 0]
    /\ UNCHANGED <<positions, total_capital, control, caches, bot_config, api_call, calls, outside_trading,
                   positions_file, http, run_log, liquidations, errors>>
    /\ response' = NoResponse

(***************************************************************************)
(* _execute_earn_level.                                                    *)
(***************************************************************************)
\* What the steps of a level leave alone.
LevelVars == <<counters, control, caches, bot_config, api_call, calls, outside_trading, http, liquidations>>

\* positions.json after self.positions.append(position); self._save_positions().
SavedWith(pos) ==
    <<Snapshot(pos, total_capital, leveraged_capital, is_running, bot_status)>>

\* Steps 1 to 3 before the order: the price, the loan asset, the quantity.
LevelPrepare ==
    /\ th.pc = "level"
    /\ \E info \in SymbolInfos :
          /\ Allowed(InfoErrs(info))
          /\ errors' = errors + InfoErrs(info)
          /\ LET price == _get_asset_price(price_cache, th.asset)
                 optimal == _get_optimal_loan_asset(loan_data_cache, th.asset,
                                                    th.max_loan)
                 quantity == IF price > 0
                             THEN _format_quantity(info, th.current_capital, price)
                             ELSE 0
             IN  IF price <= 0 \/ quantity <= 0
                 THEN /\ th' = AfterReturn(th, FALSE, 0)
                      /\ run_log' = Returned(run_log, FALSE, 0, FALSE)
                 ELSE /\ th' = [th EXCEPT !.pc = "buy", !.price = price,
                                          !.quantity = quantity,
                                          !.loan_asset = optimal[1],
                                          !.loan_rate = optimal[2]]
                      /\ UNCHANGED run_log
    /\ UNCHANGED <<positions, positions_file>>
    /\ UNCHANGED LevelVars
    /\ response' = NoResponse

\* A level that goes on after any reply to the order.
BuyNeverFailed(buy_order) == FALSE

\* if "error" in buy_order: return False, 0
BuyFailed(buy_order) == IsError(buy_order)

\* The market buy.
LevelBuy ==
    /\ th.pc = "buy"
    /\ \E reply \in Replies :
          /\ Allowed(Errs(reply))
          /\ errors' = errors + Errs(reply)
          /\ run_log' = IF BuyFailed(reply)
                        THEN Returned(Logged(run_log, "buy", reply, th.quantity),
                                      FALSE, 0, FALSE)
                        ELSE Logged(run_log, "buy", reply, th.quantity)
          /\ th' = IF BuyFailed(reply) THEN AfterReturn(th, FALSE, 0)
                   ELSE [th EXCEPT !.pc = IF use_margin_only THEN "margin_transfer"
                                          ELSE "deposit"]
    /\ UNCHANGED <<positions, positions_file>>
    /\ UNCHANGED LevelVars
    /\ response' = NoResponse

\* Margin-only mode: the transfer of the purchase to the margin account.
LevelMarginTransfer ==
    /\ th.pc = "margin_transfer"
    /\ \E reply \in Replies :
          /\ Allowed(Errs(reply))
          /\ errors' = errors + Errs(reply)
          /\ run_log' = Logged(run_log, "transfer", reply, th.quantity)
          /\ th' = [th EXCEPT !.pc = IF IsError(reply) THEN "emergency_sell"
                                     ELSE "margin_borrow"]
    /\ UNCHANGED <<positions, positions_file>>
    /\ UNCHANGED LevelVars
    /\ response' = NoResponse

\* The position of a margin borrow: USDT, loan_order_id 'MARGIN'.
MarginPosition(t) ==
    Position(t.asset, t.quantity, t.max_loan, "USDT",
             Ltv(t.max_loan, t.quantity * t.price), t.level + 1, "none", "MARGIN",
             default_loan_rate, t.price)

\* A level that records a position after any reply to the margin borrow.
MarginBorrowNeverFailed(margin_borrow_result) == FALSE

\* if "error" not in margin_borrow_result: ... else: the borrow failed.
MarginBorrowFailed(margin_borrow_result) == IsError(margin_borrow_result)

\* Margin-only mode: the margin borrow, and the position on success.
LevelMarginBorrow ==
    /\ th.pc = "margin_borrow"
    /\ \E reply \in Replies :
          /\ Allowed(Errs(reply))
          /\ errors' = errors + Errs(reply)
          /\ IF MarginBorrowFailed(reply)
             THEN /\ run_log' = Logged(run_log, "margin_borrow", reply, th.max_loan)
                  /\ th' = [th EXCEPT !.pc = "emergency_sell"]
                  /\ UNCHANGED <<positions, positions_file>>
             ELSE /\ positions' = Append(positions, MarginPosition(th))
                  /\ positions_file' = SavedWith(positions')
                  /\ run_log' = Returned(Logged(run_log, "margin_borrow", reply,
                                                th.max_loan),
                                         TRUE, th.max_loan, TRUE)
                  /\ th' = AfterReturn(th, TRUE, th.max_loan)
    /\ UNCHANGED LevelVars
    /\ response' = NoResponse

\* product_id of the savings flow: the productId of the cached product of
\* the asset, None when there is no product or no id.
ProductId(savings, a) ==
    IF a \in DOMAIN savings /\ savings[a] = "id" THEN "id" ELSE "none"

\* The savings flow: the subscription, when there is a product id; a failed
\* subscription only logs.
LevelDeposit ==
    /\ th.pc = "deposit"
    /\ LET product == ProductId(savings_products_cache, th.asset)
       IN  IF product = "id"
           THEN \E reply \in Replies :
                   /\ Allowed(Errs(reply))
                   /\ errors' = errors + Errs(reply)
                   /\ run_log' = Logged(run_log, "deposit", reply, th.quantity)
                   /\ th' = [th EXCEPT !.pc = "loan", !.product_id = product,
                                       !.deposited = ~IsError(reply)]
           ELSE /\ th' = [th EXCEPT !.pc = "loan", !.product_id = product]
                /\ UNCHANGED <<run_log, errors>>
    /\ UNCHANGED <<positions, positions_file>>
    /\ UNCHANGED LevelVars
    /\ response' = NoResponse

\* The position of a crypto loan.
LoanPosition(t, loan_amount, loan_usd) ==
    Position(t.asset, t.quantity, loan_amount, t.loan_asset,
             Ltv(loan_usd, t.quantity * t.price), t.level + 1, t.product_id, "order",
             t.loan_rate, t.price)

\* actual_loan_amount: max_loan_amount in units of the loan asset, when that
\* is not USDT and has a price.
ActualLoanAmount(cache, loan_asset, max_loan) ==
    IF loan_asset # "USDT" /\ _get_asset_price(cache, loan_asset) > 0
    THEN max_loan \div _get_asset_price(cache, loan_asset)
    ELSE max_loan

\* actual_loan_in_usd: the loan amount at the price of the loan asset.
ActualLoanInUsd(cache, loan_asset, loan_amount) ==
    IF loan_asset # "USDT"
    THEN loan_amount * _get_asset_price(cache, loan_asset)
    ELSE loan_amount

\* A level that leaves the subscription in place after a failed loan.
NeverRedeems(t) == FALSE

\* if "error" in loan_result ... if product_id and deposit_result and "error"
\* not in deposit_result: the subscription is redeemed after a failed loan.
RedeemsAfterFailedLoan(t) == t.product_id = "id" /\ t.deposited

\* Step 5: the crypto loan.  On an error the subscription is redeemed when it
\* had succeeded (the reply is dropped), and the margin fallback follows; on
\* success a USDT loan is recorded at once and another loan asset is
\* converted first.
LevelLoan ==
    /\ th.pc = "loan"
    /\ LET amount == ActualLoanAmount(price_cache, th.loan_asset, th.max_loan)
           usd == ActualLoanInUsd(price_cache, th.loan_asset, amount)
       IN  \E reply \in Replies :
              /\ Allowed(Errs(reply))
              /\ errors' = errors + Errs(reply)
              /\ IF IsError(reply)
                 THEN /\ run_log' =
                            IF RedeemsAfterFailedLoan(th)
                            THEN Logged(Logged(run_log, "loan", reply, amount),
                                        "redeem", "ok", th.quantity)
                            ELSE Logged(run_log, "loan", reply, amount)
                      /\ th' = [th EXCEPT !.pc = IF use_margin_fallback
                                                 THEN "fallback_transfer"
                                                 ELSE "emergency_sell"]
                      /\ UNCHANGED <<positions, positions_file>>
                 ELSE IF th.loan_asset # "USDT"
                 THEN /\ run_log' = Logged(run_log, "loan", reply, amount)
                      /\ th' = [th EXCEPT !.pc = "convert", !.loan_amount = amount,
                                          !.loan_usd = usd]
                      /\ UNCHANGED <<positions, positions_file>>
                 ELSE /\ positions' = Append(positions, LoanPosition(th, amount, usd))
                      /\ positions_file' = SavedWith(positions')
                      /\ run_log' = Returned(Logged(run_log, "loan", reply, amount),
                                             TRUE, usd, TRUE)
                      /\ th' = AfterReturn(th, TRUE, usd)
    /\ UNCHANGED LevelVars
    /\ response' = NoResponse

\* Step 6 and 7: the sale of the loan asset for USDT, whose failure only
\* logs, and the position record.
LevelConvert ==
    /\ th.pc = "convert"
    /\ \E info \in SymbolInfos, reply \in Replies :
          /\ Allowed(InfoErrs(info) + Errs(reply))
          /\ errors' = errors + InfoErrs(info) + Errs(reply)
          /\ positions' = Append(positions, LoanPosition(th, th.loan_amount, th.loan_usd))
          /\ positions_file' = SavedWith(positions')
          /\ run_log' = Returned(Logged(run_log, "convert", reply,
                                        _format_quantity(info, th.loan_amount, 1)),
                                 TRUE, th.loan_usd, TRUE)
          /\ th' = AfterReturn(th, TRUE, th.loan_usd)
    /\ UNCHANGED LevelVars
    /\ response' = NoResponse

\* The margin fallback after a failed crypto loan: the transfer.
LevelFallbackTransfer ==
    /\ th.pc = "fallback_transfer"
    /\ \E reply \in Replies :
          /\ Allowed(Errs(reply))
          /\ errors' = errors + Errs(reply)
          /\ run_log' = Logged(run_log, "transfer", reply, th.quantity)
          /\ th' = [th EXCEPT !.pc = IF IsError(reply) THEN "emergency_sell"
                                     ELSE "fallback_borrow"]
    /\ UNCHANGED <<positions, positions_file>>
    /\ UNCHANGED LevelVars
    /\ response' = NoResponse

\* The margin fallback: the margin borrow, and the position on success.
LevelFallbackBorrow ==
    /\ th.pc = "fallback_borrow"
    /\ \E reply \in Replies :
          /\ Allowed(Errs(reply))
          /\ errors' = errors + Errs(reply)
          /\ IF MarginBorrowFailed(reply)
             THEN /\ run_log' = Logged(run_log, "margin_borrow", reply, th.max_loan)
                  /\ th' = [th EXCEPT !.pc = "emergency_sell"]
                  /\ UNCHANGED <<positions, positions_file>>
             ELSE /\ positions' = Append(positions, MarginPosition(th))
                  /\ positions_file' = SavedWith(positions')
                  /\ run_log' = Returned(Logged(run_log, "margin_borrow", reply,
                                                th.max_loan),
                                         TRUE, th.max_loan, TRUE)
                  /\ th' = AfterReturn(th, TRUE, th.max_loan)
    /\ UNCHANGED LevelVars
    /\ response' = NoResponse

\* _emergency_sell of the purchase, then `return False, 0`.
LevelEmergencySell ==
    /\ th.pc = "emergency_sell"
    /\ \E info \in SymbolInfos, reply \in Replies :
          /\ Allowed(InfoErrs(info) + Errs(reply))
          /\ errors' = errors + InfoErrs(info) + Errs(reply)
          /\ run_log' = Returned(Logged(run_log, "sell", reply,
                                        _format_quantity(info, th.quantity, 1)),
                                 FALSE, 0, FALSE)
    /\ th' = AfterReturn(th, FALSE, 0)
    /\ UNCHANGED <<positions, positions_file>>
    /\ UNCHANGED LevelVars
    /\ response' = NoResponse

(***************************************************************************)
(* The end of start_trading and the monitoring task.                       *)
(***************************************************************************)
\* After the cascade: asyncio.create_task(self._start_monitoring()), the
\* status and the save.  start_trading returns without suspending again, so
\* the new task gets its first step and asyncio.run then cancels it.
StartFinish ==
    /\ th.pc = "cascade_done"
    /\ bot_status' = "Active Earn Positions"
    /\ positions_file' =
          <<Snapshot(positions, total_capital, leveraged_capital, is_running, bot_status')>>
    /\ th' = Thread("monitor", th.capital)
    /\ run_log' = <<>>
    /\ UNCHANGED <<positions, counters, is_running, caches, bot_config, api_call, calls, outside_trading, http,
                   liquidations, errors>>
    /\ response' = NoResponse

\* A monitoring loop that does not look at the flag.
MonitorLoopForever(running) == TRUE

\* `while self.is_running` of _start_monitoring.
MonitorLoopRuns(running) == running

\* _start_monitoring: `while self.is_running`, and the head of
\* _monitor_positions: the price refresh and the loan orders.  With no
\* position the pass returns, the task suspends in asyncio.sleep and is
\* cancelled there.
MonitorBegin ==
    /\ th.pc = "monitor"
    /\ IF ~MonitorLoopRuns(is_running) \/ positions = <<>>
       THEN /\ th' = [th EXCEPT !.pc = "cancelled"]
            /\ UNCHANGED <<price_cache, errors>>
       ELSE /\ \E reply \in Replies, tick \in Markets :
                  /\ Allowed(Errs(reply))
                  /\ errors' = errors + Errs(reply)
                  /\ price_cache' = IF IsError(reply) THEN price_cache ELSE tick
            /\ th' = [th EXCEPT !.pc = "examine", !.idx = 1]
    /\ UNCHANGED <<positions, counters, control, loan_data_cache, collateral_data_cache,
                   bot_config, api_call, calls, outside_trading, positions_file, http, run_log, liquidations>>
    /\ response' = NoResponse

\* The loan value of a position in USD, as _monitor_positions computes it.
LoanValueUsd(cache, pos) ==
    IF pos.loan_asset # "USDT"
    THEN pos.loan_amount * _get_asset_price(cache, pos.loan_asset)
    ELSE pos.loan_amount

\* current_ltv of _monitor_positions: 1.0 without collateral value.
RecomputedLtv(cache, pos) ==
    LET collateral_value == pos.collateral_amount * _get_asset_price(cache, pos.asset)
    IN  IF collateral_value > 0 THEN Ltv(LoanValueUsd(cache, pos), collateral_value)
        ELSE 100 * 100

\* What the loan orders of the exchange say of a position: nothing, or the
\* currentLTV of its order.  Only an order id the exchange gave can be listed.
OrderListings(pos) ==
    IF pos.loan_order_id = "order" THEN {<<>>} \cup {<<l>> : l \in ExchangeLtvs}
    ELSE {<<>>}

\* position.current_ltv after the pass looked at the position.
MonitoredLtv(cache, pos, listing) ==
    IF listing = <<>> THEN RecomputedLtv(cache, pos) ELSE listing[1]

\* The record of a liquidation that the pass invoked.
Liquidation(pos, idx) == [asset |-> pos.asset, level |-> pos.level, idx |-> idx,
                          ltv |-> pos.current_ltv]

\* One iteration of `for position in self.positions`: the position at index
\* idx of the list as it is now.  Past its end the pass saves and returns,
\* the task suspends in asyncio.sleep and is cancelled there.
MonitorExamine ==
    /\ th.pc = "examine"
    /\ IF th.idx > Len(positions)
       THEN /\ positions_file' =
                  <<Snapshot(positions, total_capital, leveraged_capital,
                             is_running, bot_status)>>
            /\ th' = [th EXCEPT !.pc = "cancelled"]
            /\ UNCHANGED <<positions, liquidations>>
       ELSE LET pos == positions[th.idx]
            IN  IF _get_asset_price(price_cache, pos.asset) <= 0
                THEN /\ th' = [th EXCEPT !.idx = th.idx + 1]
                     /\ UNCHANGED <<positions, positions_file, liquidations>>
                ELSE \E listing \in OrderListings(pos) :
                        LET ltv == MonitoredLtv(price_cache, pos, listing)
                        IN  /\ positions' = [positions EXCEPT ![th.idx].current_ltv = ltv]
                            /\ IF EmergencyReached(ltv)
                               THEN /\ liquidations' = Append(liquidations,
                                          Liquidation(positions'[th.idx], th.idx))
                                    /\ th' = [th EXCEPT !.pc =
                                          IF pos.loan_asset # "USDT"
                                          THEN "liquidate_buy" ELSE "liquidate_repay"]
                               ELSE /\ th' = [th EXCEPT !.idx = th.idx + 1]
                                    /\ UNCHANGED liquidations
                            /\ UNCHANGED positions_file
    /\ UNCHANGED <<counters, control, caches, bot_config, api_call, calls, outside_trading, http, run_log, errors>>
    /\ response' = NoResponse

\* What the steps of a liquidation leave alone.
LiquidateVars ==
    <<positions, counters, control, caches, bot_config, api_call, calls, outside_trading, positions_file, http,
      run_log, liquidations>>

\* _emergency_liquidate_position, loan not in USDT: the purchase of the loan
\* asset.  On an error the routine returns and the pass goes on; else it
\* suspends in asyncio.sleep(2) and the task is cancelled there.
LiquidateBuyLoanAsset ==
    /\ th.pc = "liquidate_buy"
    /\ \E info \in SymbolInfos, reply \in Replies :
          /\ Allowed(InfoErrs(info) + Errs(reply))
          /\ errors' = errors + InfoErrs(info) + Errs(reply)
          /\ th' = IF IsError(reply)
                   THEN [th EXCEPT !.pc = "examine", !.idx = th.idx + 1]
                   ELSE [th EXCEPT !.pc = "cancelled"]
    /\ UNCHANGED LiquidateVars
    /\ response' = NoResponse

\* _emergency_liquidate_position, USDT loan: the repayment.  On an error the
\* routine returns and the pass goes on; else it suspends in asyncio.sleep(3),
\* before the withdrawal or before the sale, and the task is cancelled there.
LiquidateRepay ==
    /\ th.pc = "liquidate_repay"
    /\ \E reply \in Replies :
          /\ Allowed(Errs(reply))
          /\ errors' = errors + Errs(reply)
          /\ th' = IF IsError(reply)
                   THEN [th EXCEPT !.pc = "examine", !.idx = th.idx + 1]
                   ELSE [th EXCEPT !.pc = "cancelled"]
    /\ UNCHANGED LiquidateVars
    /\ response' = NoResponse

\* asyncio.run: the main coroutine has returned, the monitoring task is
\* cancelled where it is suspended, and the thread ends.
AsyncioRunReturns ==
    /\ th.pc = "cancelled"
    /\ th' = IdleThread
    /\ UNCHANGED <<positions, counters, control, caches, bot_config, api_call, calls, outside_trading, positions_file,
                   http, run_log, liquidations, errors>>
    /\ response' = NoResponse

(***************************************************************************)
(* POST /stop and stop_trading, on the HTTP thread.                        *)
(***************************************************************************)
RECURSIVE Reversed(_)
Reversed(list) ==
    IF list = <<>> THEN <<>> ELSE Append(Reversed(Tail(list)), Head(list))

\* stop_trading up to the loop: the flag, the status, the copy of the list.
StopBegin ==
    /\ stopper.pc = "idle"
    /\ is_running' = FALSE
    /\ bot_status' = "Closing Earn Positions"
    /\ stopper' = [pc |-> "closing", todo |-> Reversed(positions),
                   quiet |-> th.pc = "idle", failed |-> FALSE]
    /\ UNCHANGED <<positions, counters, caches, bot_config, api_call, calls, outside_trading,
                   positions_file, th, run_log, liquidations, started, again, boots, errors>>
    /\ response' = NoResponse

\* _close_earn_position of the next position of the copy: the repayment,
\* the withdrawal and the sale, whose replies are only logged.  The reply
\* chosen here stands for the outcome of the whole close: an error when one
\* of its requests was answered with an error.
StopClosePosition ==
    /\ stopper.pc = "closing"
    /\ stopper.todo # <<>>
    /\ \E reply \in Replies :
          /\ Allowed(Errs(reply))
          /\ errors' = errors + Errs(reply)
          /\ stopper' = [stopper EXCEPT !.todo = Tail(stopper.todo),
                                        !.failed = stopper.failed \/ IsError(reply)]
    /\ UNCHANGED <<positions, counters, control, caches, bot_config, api_call, calls, outside_trading,
                   positions_file, th, run_log, liquidations, started, again, boots>>
    /\ response' = NoResponse

\* The places of the trading thread inside the cascade.
CascadePcs ==
    {"cascade", "loop", "level", "buy", "margin_transfer", "margin_borrow", "deposit",
     "loan", "convert", "fallback_transfer", "fallback_borrow", "emergency_sell",
     "after_level", "add_leveraged"}

\* stop_trading after the loop if a lock kept it out while a cascade runs.
StopFinishLocked ==
    /\ stopper.pc = "closing"
    /\ stopper.todo = <<>>
    /\ th.pc \notin CascadePcs
    /\ positions' = <<>>
    /\ leveraged_capital' = 0
    /\ total_yield' = 0
    /\ bot_status' = "Stopped"
    /\ positions_file' =
          <<Snapshot(positions', total_capital, leveraged_capital', is_running,
                     bot_status')>>
    /\ response' = Json("/stop", TRUE)
    /\ stopper' = IdleStopper
    /\ UNCHANGED <<total_capital, is_running, caches, bot_config, api_call, calls, th, run_log,
                   liquidations, started, again, boots, errors>>

\* stop_trading after the loop without its _save_positions call.
StopFinishUnsaved ==
    /\ stopper.pc = "closing"
    /\ stopper.todo = <<>>
    /\ positions' = <<>>
    /\ leveraged_capital' = 0
    /\ total_yield' = 0
    /\ bot_status' = "Stopped"
    /\ response' = Json("/stop", TRUE)
    /\ stopper' = IdleStopper
    /\ UNCHANGED <<total_capital, is_running, caches, bot_config, api_call, calls, positions_file, th,
                   run_log, liquidations, started, again, boots, errors>>

\* stop_trading after the loop: the list cleared, the counters, the save;
\* then the /stop route answers.  stop_trading has returned normally, so the
\* route's except clause is not entered.
StopFinish ==
    /\ stopper.pc = "closing"
    /\ stopper.todo = <<>>
    /\ positions' = <<>>
    /\ leveraged_capital' = 0
    /\ total_yield' = 0
    /\ bot_status' = "Stopped"
    /\ positions_file' =
          <<Snapshot(positions', total_capital, leveraged_capital', is_running,
                     bot_status')>>
    /\ response' = Json("/stop", TRUE)
    /\ stopper' = IdleStopper
    /\ UNCHANGED <<total_capital, is_running, caches, bot_config, api_call, calls, th, run_log,
                   liquidations, started, again, boots, errors>>

(***************************************************************************)
(* GET /balances.                                                          *)
(***************************************************************************)
\* The /balances route with a bot: jsonify(bot.get_account_balances()).  The
\* class has no such method (the body that was meant for it follows the
\* return of test_connection and is never run), so the call raises
\* AttributeError; the route has no except clause and the application no
\* error handler, and the server answers with its own error page.
HttpBalances ==
    /\ response' = ServerError("/balances")
    /\ UNCHANGED <<positions, counters, control, caches, bot_config, api_call, calls, outside_trading,
                   positions_file, th, http, run_log, liquidations, errors>>

(***************************************************************************)
(* A call of _make_request, whoever makes it.                              *)
(***************************************************************************)
\* The call with its arguments, the clock and what the HTTP library does;
\* api_call keeps them with what was prepared for sending, whether it was
\* sent, and what the call came to.  A behaviour looks at one call.
MakeRequest ==
    /\ api_call = <<>>
    /\ \E endpoint \in Endpoints, method \in Methods, params \in ParamMaps,
          require_auth \in RequireAuths, now \in Clock, outcome \in Outcomes :
          api_call' = <<[endpoint |-> endpoint, method |-> method, params |-> params,
                         require_auth |-> require_auth, now |-> now, outcome |-> outcome,
                         prepared |-> Prepared(endpoint, params, require_auth, now),
                         sent |-> RequestSent(method),
                         result |-> _make_request(method, outcome)]>>
    /\ response' = NoResponse
    /\ UNCHANGED <<positions, counters, control, caches, bot_config, outside_trading,
                   positions_file, th, http, run_log, liquidations, errors, calls>>

(***************************************************************************)
(* get_portfolio_status, whoever calls it.                                 *)
(***************************************************************************)
\* AssetConfig.yield_rate, in basis points; 0 stands for an asset that
\* asset_config does not have.
yield_rate(a) ==
    CASE a = "BTC" -> 400 [] a = "ETH" -> 500 [] a = "BNB" -> 600
      [] a = "USDT" -> 800 [] a = "USDC" -> 750 [] a = "ADA" -> 800
      [] a = "DOT" -> 900 [] a = "LINK" -> 1000 [] a = "AVAX" -> 900
      [] a = "MATIC" -> 1100 [] a = "SOL" -> 800 [] OTHER -> 0

\* AssetConfig.loan_rate, in basis points.
loan_rate(a) ==
    CASE a = "BTC" -> 250 [] a = "ETH" -> 280 [] a = "BNB" -> 300
      [] a = "USDT" -> 200 [] a = "USDC" -> 210 [] a = "ADA" -> 350
      [] a = "DOT" -> 380 [] a = "LINK" -> 400 [] a = "AVAX" -> 370
      [] a = "MATIC" -> 410 [] a = "SOL" -> 360 [] OTHER -> 0

\* Position lists the bot can hold when its status is asked: none, a margin
\* position, a loan position in USDC loaded from a file without loan_rate,
\* and cascades of two and three levels.
StatusPositions ==
    LET first == Position("BTC", 600, 3300, "USDT", 5500, 1, "none", "MARGIN",
                          default_loan_rate, 10)
        second == Position("ETH", 300, 150, "USDC", 5000, 2, "ETH001", "order", 0, 10)
        third == Position("BNB", 200, 900, "USDT", 4500, 3, "none", "MARGIN",
                          default_loan_rate, 7)
    IN  {<<>>, <<first>>, <<second>>, <<first, second>>, <<first, second, third>>}

\* self.total_capital at the call: what the last POST /start asked for, which
\* nothing keeps above zero.
StatusCapitals == {0 - 1000, 0, 1000, 4000}

\* total_collateral_value, total_loan_value and annual_yield: the sums of the
\* two loops over self.positions.
RECURSIVE TotalCollateralValue(_, _)
TotalCollateralValue(cache, list) ==
    IF list = <<>> THEN 0
    ELSE list[1].collateral_amount * _get_asset_price(cache, list[1].asset)
         + TotalCollateralValue(cache, Tail(list))

RECURSIVE TotalLoanValue(_, _)
TotalLoanValue(cache, list) ==
    IF list = <<>> THEN 0
    ELSE LoanValueUsd(cache, list[1]) + TotalLoanValue(cache, Tail(list))

RECURSIVE AnnualYield(_, _)
AnnualYield(cache, list) ==
    IF list = <<>> THEN 0
    ELSE LET pos == list[1]
             rate == IF pos.loan_rate > 0 THEN pos.loan_rate ELSE loan_rate(pos.asset)
             net_rate == yield_rate(pos.asset) - rate
             position_value == pos.collateral_amount * _get_asset_price(cache, pos.asset)
         IN  (IF pos.asset \in ConfigAssets THEN net_rate * position_value ELSE 0)
             + AnnualYield(cache, Tail(list))

\* x / y in Python: ZeroDivisionError when y is 0.
Divide(x, y) == IF y = 0 THEN Raised("ZeroDivisionError") ELSE Returns(x \div y)

\* A quotient by the capital that is taken whatever the capital is.
PerCapitalUnguarded(value, capital) == Divide(value, capital)

\* (value / self.total_capital) if self.total_capital > 0 else 0.
PerCapital(value, capital) ==
    IF capital > 0 THEN Divide(value, capital) ELSE Returns(0)

\* get_portfolio_status on a position list, a capital and a price cache:
\* the dict it returns, leverage_ratio in basis points and total_yield in
\* hundredths of a percent, or the exception it raises.
get_portfolio_status(list, capital, cache) ==
    LET total_collateral_value == TotalCollateralValue(cache, list)
        total_loan_value == TotalLoanValue(cache, list)
        leverage_ratio == PerCapital(total_collateral_value * 10000, capital)
        roi_percentage == PerCapital(AnnualYield(cache, list), capital)
    IN  IF leverage_ratio.raised # "none" THEN leverage_ratio
        ELSE IF roi_percentage.raised # "none" THEN roi_percentage
        ELSE Returns([total_positions |-> Len(list), total_capital |-> capital,
                      leveraged_capital |-> total_loan_value,
                      net_portfolio_value |-> total_collateral_value - total_loan_value,
                      total_yield |-> roi_percentage.value,
                      leverage_ratio |-> leverage_ratio.value])

\* A call of get_portfolio_status; calls keeps what it read and what it came
\* to.  A behaviour looks at one call.
StatusCall ==
    /\ calls = <<>>
    /\ \E list \in StatusPositions, capital \in StatusCapitals, cache \in Markets :
          calls' = <<[routine |-> "get_portfolio_status", positions |-> list,
                      total_capital |-> capital, cache |-> cache,
                      result |-> get_portfolio_status(list, capital, cache)]>>
    /\ response' = NoResponse
    /\ UNCHANGED <<positions, counters, control, caches, bot_config, api_call,
                   outside_trading, positions_file, th, http, run_log, liquidations,
                   errors>>

StatusSpec == Init /\ [][StatusCall]_vars

(***************************************************************************)
(* Calls of BinanceAPI._generate_signature, whoever makes them.            *)
(***************************************************************************)
\* Calls of _generate_signature in one behaviour.
MaxSignCalls == 2

\* The fields BinanceAPI.__init__ sets from its arguments: clients with one
\* secret or the other, under either key, for either host.
Clients ==
    [api_key : {api_key, "key2"}, api_secret : {api_secret, "secret2"}, testnet : BOOLEAN]

\* Query strings that _make_request hands over.
QueryStrings ==
    {QueryString(SetItem(params, "timestamp", ToString(now))) :
        params \in {<<>>, <<<<"symbol", "BTCUSDT">>>>}, now \in Clock}

\* A signature that also takes in the key of the client.
SignatureWithKey(self, query_string) ==
    _generate_signature(self.api_secret \o self.api_key, query_string)

\* self._generate_signature(query_string): of self, only api_secret is read.
Signature(self, query_string) == _generate_signature(self.api_secret, query_string)

\* A call; calls keeps the client, the argument and the value returned.
SignCall ==
    /\ Len(calls) < MaxSignCalls
    /\ \E self \in Clients, query_string \in QueryStrings :
          calls' = Append(calls, [routine |-> "_generate_signature", self |-> self,
                                  query_string |-> query_string,
                                  result |-> Signature(self, query_string)])
    /\ response' = NoResponse
    /\ UNCHANGED <<positions, counters, control, caches, bot_config, api_call,
                   outside_trading, positions_file, th, http, run_log, liquidations,
                   errors>>

SignSpec == Init /\ [][SignCall]_vars

(***************************************************************************)
(* The unwinding of one position: _close_earn_position of stop_trading and *)
(* _emergency_liquidate_position of the monitoring task, each on its own.  *)
(***************************************************************************)
\* Positions as the cascade records them: of a margin borrow, of a USDT loan
\* on a subscribed product, of loans in USDC without and with a product.
UnwindPositions ==
    {Position("BTC", 600, 3300, "USDT", 5500, 1, "none", "MARGIN", default_loan_rate, 10),
     Position("ETH", 300, 1500, "USDT", 5000, 1, "id", "order", 300, 10),
     Position("BNB", 200, 90, "USDC", 4500, 2, "none", "order", 300, 10),
     Position("ETH", 300, 150, "USDC", 5000, 2, "id", "order", 300, 10)}

\* The requests of an unwinding, by the method of BinanceAPI that sends them
\* (place_order by its side), and the replies of the exchange to each.
UnwindRequests ==
    {"margin_repay", "margin_transfer", "buy", "repay_crypto_loan", "redeem", "sell"}

UnwindReplies == [UnwindRequests -> Replies]

\* A request as sent: arg is the order id of a repay_crypto_loan and the
\* asset of any other request.
Request(req, arg, replies) == [req |-> req, arg |-> arg, ok |-> ~IsError(replies[req])]

\* The requests of _close_earn_position, in order.  No reply ends it: the
\* replies are only logged.
_close_earn_position(position, replies) ==
    IF position.loan_order_id = "MARGIN"
    THEN <<Request("margin_repay", "USDT", replies),
           Request("margin_transfer", position.asset, replies),
           Request("sell", position.asset, replies)>>
    ELSE (IF position.loan_order_id # "none" /\ position.loan_order_id # "MARGIN"
          THEN (IF position.loan_asset # "USDT"
                THEN <<Request("buy", position.loan_asset, replies)>> ELSE <<>>)
               \o <<Request("repay_crypto_loan", position.loan_order_id, replies)>>
          ELSE <<>>)
         \o (IF position.earn_product_id # "none"
             THEN <<Request("redeem", position.asset, replies)>> ELSE <<>>)
         \o <<Request("sell", position.asset, replies)>>

\* The requests of _emergency_liquidate_position up to its first
\* asyncio.sleep, where the task is cancelled: the purchase of a loan asset
\* that is not USDT, or else the repayment.
_emergency_liquidate_position(position, replies) ==
    IF position.loan_order_id # "none"
    THEN IF position.loan_asset # "USDT"
         THEN <<Request("buy", position.loan_asset, replies)>>
         ELSE <<Request("repay_crypto_loan", position.loan_order_id, replies)>>
    ELSE <<>>

\* An unwinding; calls keeps the position, the replies and the requests.
\* A behaviour looks at one unwinding.
CloseCall ==
    /\ calls = <<>>
    /\ \E position \in UnwindPositions, replies \in UnwindReplies :
          calls' = <<[routine |-> "_close_earn_position", position |-> position,
                      requests |-> _close_earn_position(position, replies)]>>
    /\ response' = NoResponse
    /\ UNCHANGED <<positions, counters, control, caches, bot_config, api_call,
                   outside_trading, positions_file, th, http, run_log, liquidations,
                   errors>>

\* The monitoring pass hands over a position whose current_ltv it has just
\* found at the emergency threshold or above.
LiquidateCall ==
    /\ calls = <<>>
    /\ \E held \in UnwindPositions, ltv \in {l \in ExchangeLtvs : EmergencyReached(l)},
          replies \in UnwindReplies :
          LET position == [held EXCEPT !.current_ltv = ltv]
          IN  calls' = <<[routine |-> "_emergency_liquidate_position",
                          position |-> position,
                          requests |-> _emergency_liquidate_position(position, replies)]>>
    /\ response' = NoResponse
    /\ UNCHANGED <<positions, counters, control, caches, bot_config, api_call,
                   outside_trading, positions_file, th, http, run_log, liquidations,
                   errors>>

UnwindSpec == Init /\ [][CloseCall \/ LiquidateCall]_vars

(***************************************************************************)
(* The loop of stop_trading over the positions, on its own.                *)
(***************************************************************************)
\* Position lists that stop_trading finds: none, one position, and a level 1
\* followed by a level 2 of another asset.
StopLists ==
    {<<>>} \cup {<<p>> : p \in UnwindPositions}
    \cup {pair \in {<<p, q>> : p, q \in UnwindPositions} :
               pair[1].level = 1 /\ pair[2].level = 2 /\ pair[1].asset # pair[2].asset}

\* A loop that takes the positions as the list has them.
AppendOrder(list) == list

\* reversed(self.positions.copy()).
CloseOrder(list) == Reversed(list)

\* The requests of the closes of todo, one close after the other; each
\* request is kept with the position it belongs to.  replies[i] are the
\* replies to the requests of the i-th close.
RECURSIVE CloseEach(_, _, _)
CloseEach(todo, replies, i) ==
    IF i > Len(todo) THEN <<>>
    ELSE LET requests == _close_earn_position(todo[i], replies[i])
         IN  [k \in 1..Len(requests) |-> [position |-> todo[i], request |-> requests[k]]]
             \o CloseEach(todo, replies, i + 1)

\* A call of stop_trading; calls keeps the list it found and the requests of
\* its loop.  A behaviour looks at one call.
StopCall ==
    /\ calls = <<>>
    /\ \E list \in StopLists :
          \E replies \in [1..Len(list) -> UnwindReplies] :
             calls' = <<[routine |-> "stop_trading", positions |-> list,
                         requests |-> CloseEach(CloseOrder(list), replies, 1)]>>
    /\ response' = NoResponse
    /\ UNCHANGED <<positions, counters, control, caches, bot_config, api_call,
                   outside_trading, positions_file, th, http, run_log, liquidations,
                   errors>>

StopLoopSpec == Init /\ [][StopCall]_vars

(***************************************************************************)
(* _get_optimal_loan_asset, whoever calls it.                              *)
(***************************************************************************)
\* loan_data_cache at the call: empty, the two tables of LoanData, a table
\* in which DAI with its penalty ties with USDC and USDC has narrow limits,
\* and a table in which BUSD and TUSD tie below USDT.
LoanTables ==
    {LoanData_loans.loans : LoanData_loans \in LoanData}
    \cup {[k \in {<<"BTC", "USDT">>, <<"BTC", "USDC">>, <<"BTC", "DAI">>} |->
              CASE k = <<"BTC", "USDT">> -> LoanRow(800, 1000, 100000)
                [] k = <<"BTC", "USDC">> -> LoanRow(500, 1000, 2000)
                [] OTHER -> LoanRow(300, 500, 100000)],
          [k \in {<<"ETH", "USDT">>, <<"ETH", "BUSD">>, <<"ETH", "TUSD">>} |->
              CASE k = <<"ETH", "USDT">> -> LoanRow(900, 1000, 100000)
                [] k = <<"ETH", "BUSD">> -> LoanRow(400, 1000, 100000)
                [] OTHER -> LoanRow(400, 200, 100000)]}

\* max_loan_amount of the level that asks.
LoanAmounts == {200, 500, 1000, 1500, 2652}

\* A call; calls keeps the cache, the arguments and the pair returned.  A
\* behaviour looks at one call.
OptimalLoanCall ==
    /\ calls = <<>>
    /\ \E loans \in LoanTables, collateral \in {"BTC", "ETH"}, amount \in LoanAmounts :
          calls' = <<[routine |-> "_get_optimal_loan_asset", loan_data_cache |-> loans,
                      collateral_asset |-> collateral, loan_amount |-> amount,
                      result |-> _get_optimal_loan_asset(loans, collateral, amount)]>>
    /\ response' = NoResponse
    /\ UNCHANGED <<positions, counters, control, caches, bot_config, api_call,
                   outside_trading, positions_file, th, http, run_log, liquidations,
                   errors>>

LoanAssetSpec == Init /\ [][OptimalLoanCall]_vars

(***************************************************************************)
(* A restart of the process: __init__ with a positions.json.               *)
(***************************************************************************)
\* Position(...) of _load_positions from an entry of the file.
LoadedPosition(pos_data) ==
    Position(pos_data.asset, pos_data.collateral_amount, pos_data.loan_amount,
             pos_data.loan_asset, pos_data.current_ltv, pos_data.level,
             pos_data.earn_product_id, pos_data.loan_order_id, pos_data.loan_rate,
             pos_data.entry_price)

\* The fields of the bot after _load_positions, in the shape of a snapshot.
\* With a saved is_running, asyncio.create_task is called where no event
\* loop runs (in __init__, on the main thread or on a thread of the HTTP
\* server): it raises RuntimeError after the status and the flag are set,
\* and the except clause empties the list.
_load_positions(file) ==
    IF file = <<>> THEN Snapshot(<<>>, 0, 0, FALSE, "Stopped")
    ELSE LET data == file[1]
         IN  IF data.is_running
             THEN Snapshot(<<>>, data.total_capital, data.leveraged_capital, TRUE,
                           "Resumed (Monitoring)")
             ELSE Snapshot([i \in 1..Len(data.positions) |->
                               LoadedPosition(data.positions[i])],
                           data.total_capital, data.leveraged_capital, FALSE, "Stopped")

\* The process is restarted and the bot constructed again: the threads of
\* the old process are gone, the fields are those of __init__ and of
\* _load_positions, and no monitoring task exists.  The exchange lists the
\* products it listed before, and the behaviour still has its one /start.
Construct ==
    /\ boots < MaxBoots
    /\ boots' = boots + 1
    /\ LET bot == _load_positions(positions_file)
       IN  /\ positions' = bot.positions
           /\ total_capital' = bot.total_capital
           /\ leveraged_capital' = bot.leveraged_capital
           /\ is_running' = bot.is_running
           /\ bot_status' = bot.bot_status
    /\ total_yield' = 0
    /\ price_cache' = Ticker(10, 10, 10, 10)
    /\ loan_data_cache' = [k \in {} |-> LoanRow(0, 0, 0)]
    /\ collateral_data_cache' = [a \in {} |-> 0]
    /\ th' = IdleThread
    /\ stopper' = IdleStopper
    /\ run_log' = <<>>
    /\ liquidations' = <<>>
    /\ response' = NoResponse
    /\ UNCHANGED <<bot_config, api_call, calls, positions_file, started, again, errors>>

(***************************************************************************)
(* The specification.                                                      *)
(***************************************************************************)
TradingStep ==
    \/ StartValidate
    \/ CascadeBegin
    \/ CascadeLoopHead
    \/ LevelPrepare
    \/ LevelBuy
    \/ LevelMarginTransfer
    \/ LevelMarginBorrow
    \/ LevelDeposit
    \/ LevelLoan
    \/ LevelConvert
    \/ LevelFallbackTransfer
    \/ LevelFallbackBorrow
    \/ LevelEmergencySell
    \/ CascadeAfterLevel
    \/ CascadeAddLeveraged
    \/ StartFinish
    \/ MonitorBegin
    \/ MonitorExamine
    \/ LiquidateBuyLoanAsset
    \/ LiquidateRepay
    \/ AsyncioRunReturns

StopStep == StopClosePosition \/ StopFinish

Next == HttpStart \/ StopBegin \/ TradingStep \/ StopStep

Spec == Init /\ [][Next]_vars

\* The calls of _make_request, each looked at on its own.
ApiSpec == Init /\ [][MakeRequest]_vars

\* The bot and the restarts of its process.
NextRestart == Next \/ Construct

RestartSpec == Init /\ [][NextRestart]_vars

\* The bot in margin-only mode, as test_connection sets it in __init__ when
\* the account has no flexible savings products.
MarginInit == Init /\ use_margin_only

\* The steps of the trading thread that margin-only mode can take: no
\* deposit, no crypto loan and so no fallback from one, and no loan in
\* another asset than USDT.
MarginStep ==
    \/ StartValidate
    \/ CascadeBegin
    \/ CascadeLoopHead
    \/ LevelPrepare
    \/ LevelBuy
    \/ LevelMarginTransfer
    \/ LevelMarginBorrow
    \/ LevelEmergencySell
    \/ CascadeAfterLevel
    \/ CascadeAddLeveraged
    \/ StartFinish
    \/ MonitorBegin
    \/ MonitorExamine
    \/ LiquidateRepay
    \/ AsyncioRunReturns

\* The bot in margin-only mode with GET /balances requests.
NextBalances == HttpStart \/ StopBegin \/ MarginStep \/ StopStep \/ HttpBalances

BalancesSpec == MarginInit /\ [][NextBalances]_vars

\* The bot in margin-only mode with two POST /start requests and no
\* POST /stop.
NextTwoStarts == HttpStart \/ HttpStartAgain \/ MarginStep

TwoStartsSpec == MarginInit /\ [][NextTwoStarts]_vars

(***************************************************************************)
(* Properties.  run_log holds one entry for each level iteration of the    *)
(* cascade run in progress, with the requests the level sent in order.     *)
(***************************************************************************)
\* The places in the requests of a level entry of the requests named.
ReqIndices(e, names) == {k \in 1..Len(e.reqs) : e.reqs[k].req \in names}

\* A request of the level among those named got an error reply.
FailedIn(e, names) == \E k \in ReqIndices(e, names) : ~e.reqs[k].ok

\* A request of the level among those named succeeded.
OkIn(e, names) == \E k \in ReqIndices(e, names) : e.reqs[k].ok

\* The borrow requests of a level: the crypto loan and the margin borrow.
BorrowRequests == {"loan", "margin_borrow"}

\* The requests whose error ends a level without a loan.
DecisiveRequests == {"buy", "transfer", "margin_borrow"}

\* The places of the trading thread inside the emergency liquidation.
LiquidationPcs == {"liquidate_buy", "liquidate_repay"}

\* C1: one run of the cascade executes at most max_cascade_levels level
\* iterations, numbered 1, 2, 3 in order, whatever the capital and however
\* many assets are available, and so appends at most that many positions.
C1_AtMostMaxLevels ==
    /\ Len(run_log) <= max_cascade_levels
    /\ \A i \in 1..Len(run_log) : run_log[i].level = i
    /\ Cardinality({i \in 1..Len(run_log) : run_log[i].appended}) <= max_cascade_levels

\* C1 happens: a run ended by the cap alone, after three levels that each
\* appended a position, with a fourth asset available and capital above the
\* floor.
C1_CapEndsRun ==
    /\ th.pc = "cascade_done"
    /\ Len(th.avail) > max_cascade_levels
    /\ th.current_capital >= capital_floor
    /\ Len(run_log) = max_cascade_levels
    /\ \A i \in 1..Len(run_log) : run_log[i].appended

\* C2: no level is executed, and so no request is sent, with a capital below
\* the floor of 15 USD; at the loop head with such a capital the cascade ends
\* without a request, and after its end the run executes no level.
C2_FloorStopsCascade ==
    /\ [](\A i \in 1..Len(run_log) : run_log[i].capital >= capital_floor)
    /\ [][(th.pc = "loop" /\ th.current_capital < capital_floor /\ th' # th)
            => (th'.pc = "cascade_done" /\ run_log' = run_log /\ errors' = errors)]_vars
    /\ [][(th.pc = "cascade_done" /\ th' # th)
            => (th'.pc = "monitor" /\ run_log' = <<>>)]_vars

\* C2 happens: after two levels the loan of the second is below the floor and
\* the cascade ends there, with a level of the range left.
C2_StoppedAtFloor ==
    /\ th.pc = "cascade_done"
    /\ th.current_capital < capital_floor
    /\ th.level >= 1
    /\ th.level < Min(max_cascade_levels, Len(th.avail))
    /\ Len(run_log) = th.level

\* C3, as the specification has it: an error of any request of a level (the
\* buy, the savings deposit, the margin transfer, a borrow, the conversion)
\* leaves the level without capital for the next one and ends the cascade.
C3_AnyErrorStops ==
    \A i \in 1..Len(run_log) :
        (run_log[i].done
           /\ FailedIn(run_log[i], {"buy", "deposit", "transfer", "loan",
                                    "margin_borrow", "convert"}))
        => (~(run_log[i].success /\ run_log[i].loan > 0) /\ i = Len(run_log))

\* C3, as the code has it: an error of the market buy, of a margin transfer
\* or of a margin borrow ends the level without a loan and without a
\* position, and no later level is executed; a level that sent its buy and
\* had none of these errors returns success with a position, whatever the
\* replies to the savings deposit, to the crypto loan and to the conversion;
\* and every level but the last returned success with a loan above zero.
C3_DecisiveErrorStops ==
    \A i \in 1..Len(run_log) :
        LET e == run_log[i]
        IN  /\ (e.done /\ FailedIn(e, DecisiveRequests))
                 => (~e.success /\ e.loan = 0 /\ ~e.appended /\ i = Len(run_log))
            /\ (e.done /\ e.reqs # <<>> /\ ~FailedIn(e, DecisiveRequests))
                 => (e.success /\ e.appended)
            /\ (i < Len(run_log)) => (e.done /\ e.success /\ e.loan > 0)

\* C3 happens: the deposit of the first level got an error and the cascade
\* went on to a second level, which the error of its buy ended.
C3_DepositErrorThenBuyError ==
    /\ Len(run_log) = 2
    /\ FailedIn(run_log[1], {"deposit"})
    /\ run_log[2].done
    /\ FailedIn(run_log[2], {"buy"})

\* C4: in a level the market buy is the first request and any other request
\* follows a buy that succeeded; the savings deposit comes before every
\* borrow; a margin borrow follows a margin transfer that succeeded; and a
\* position is appended only in a step that records a successful borrow of
\* the level in progress.
C4_BuyThenPledgeThenBorrow ==
    /\ [](\A i \in 1..Len(run_log) :
            LET e == run_log[i]
            IN  /\ e.reqs # <<>> => e.reqs[1].req = "buy"
                /\ Len(e.reqs) > 1 => e.reqs[1].ok
                /\ \A d \in ReqIndices(e, {"deposit"}) :
                      \A b \in ReqIndices(e, BorrowRequests) : d < b
                /\ \A b \in ReqIndices(e, {"margin_borrow"}) :
                      b > 1 /\ e.reqs[b - 1].req = "transfer" /\ e.reqs[b - 1].ok
                /\ e.appended
                     => (e.reqs[Len(e.reqs)].req \in BorrowRequests \cup {"convert"}
                           /\ OkIn(e, BorrowRequests)))
    /\ [][(Len(positions') > Len(positions))
            => /\ positions' = Append(positions, positions'[Len(positions')])
               /\ run_log' # <<>>
               /\ run_log'[Len(run_log')].appended
               /\ ~run_log[Len(run_log)].appended
               /\ positions'[Len(positions')].level = Len(run_log')
               /\ OkIn(run_log'[Len(run_log')], BorrowRequests)]_vars

\* C4 happens: a level bought, deposited, got its crypto loan and appended
\* its position.
C4_LoanPositionAppended ==
    \E i \in 1..Len(run_log) :
        /\ run_log[i].appended
        /\ OkIn(run_log[i], {"deposit"})
        /\ OkIn(run_log[i], {"loan"})
        /\ Len(positions) >= 1
        /\ positions[Len(positions)].level = i

\* C5, as the specification has it: the loan-to-value ratio recorded in a
\* newly appended position is at most the configured ltv_max of its asset
\* times the safety factor, the amount borrowed being that share of the value
\* of the collateral bought.
C5_RecordedLtvWithinCap ==
    [][(Len(positions') = Len(positions) + 1)
         => LET pos == positions'[Len(positions')]
            IN  pos.current_ltv <= ltv_max(pos.asset) * safety_factor]_vars

\* C6, as the specification has it: the capital of a level is the loan the
\* level before returned, and the step that adds a loan to leveraged_capital
\* raises it by exactly that loan.
C6_LoanFeedsNextLevel ==
    /\ [](\A i \in 1..(Len(run_log) - 1) : run_log[i + 1].capital = run_log[i].loan)
    /\ [][(th.pc = "add_leveraged" /\ th'.pc = "loop")
            => leveraged_capital' = leveraged_capital + th.ret.loan]_vars

\* A level whose buy succeeded and that has returned with no borrow granted.
BoughtAndNotLent(e) == e.done /\ OkIn(e, {"buy"}) /\ ~OkIn(e, BorrowRequests)

\* C7, as the specification has it: a level whose buy succeeded and whose
\* every borrow attempt failed ends with the sell-back of the purchase, with
\* no position and with failure, and rolls nothing else back.
C7_OnlySellBack ==
    \A i \in 1..Len(run_log) :
        BoughtAndNotLent(run_log[i])
        => LET e == run_log[i]
           IN  /\ e.reqs[Len(e.reqs)].req = "sell"
               /\ ~e.appended /\ ~e.success /\ e.loan = 0
               /\ ReqIndices(e, {"redeem"}) = {}

\* C7, as the code has it: such a level ends with the sell-back of the
\* purchase, with no position and with failure; and a level redeems its
\* savings subscription exactly when the subscription had succeeded and the
\* crypto loan failed, the redemption following the loan request at once.
C7_SellBackAndRedeem ==
    \A i \in 1..Len(run_log) :
        LET e == run_log[i]
        IN  /\ BoughtAndNotLent(e)
                 => /\ e.reqs[Len(e.reqs)].req = "sell"
                    /\ ~e.appended /\ ~e.success /\ e.loan = 0
            /\ (ReqIndices(e, {"loan"}) # {})
                 => ((ReqIndices(e, {"redeem"}) # {})
                       <=> (OkIn(e, {"deposit"}) /\ FailedIn(e, {"loan"})))
            /\ \A r \in ReqIndices(e, {"redeem"}) :
                  r > 1 /\ e.reqs[r - 1].req = "loan" /\ ~e.reqs[r - 1].ok

\* C7 happens: a level deposited, was refused the crypto loan, redeemed, was
\* refused the margin fallback and sold the purchase back.
C7_RedeemedAndSoldBack ==
    \E i \in 1..Len(run_log) :
        /\ BoughtAndNotLent(run_log[i])
        /\ OkIn(run_log[i], {"deposit"})
        /\ ReqIndices(run_log[i], {"redeem"}) # {}
        /\ run_log[i].reqs[Len(run_log[i].reqs)].req = "sell"

\* C8, as the specification has it: while is_running is true after
\* start_trading has set the status 'Active Earn Positions', the monitoring
\* task lives on the trading thread, to poll again.
C8_MonitorKeepsPolling ==
    (is_running /\ bot_status = "Active Earn Positions") => th.pc # "idle"

\* C9: a step of the pass that examines a position sets its LTV to the
\* recomputed ratio or to the currentLTV of the exchange; at 0.85 or more it
\* invokes the liquidation of that position; below 0.85 it invokes none and
\* goes on to the next position with the list as long as before; and no
\* other step invokes a liquidation.
C9_LiquidationOnlyAtEmergency ==
    [][LET examined == /\ th.pc = "examine"
                       /\ th' # th
                       /\ th.idx <= Len(positions)
                       /\ _get_asset_price(price_cache, positions[th.idx].asset) > 0
           fired == liquidations' # liquidations
       IN  /\ examined
                => LET ltv == positions'[th.idx].current_ltv
                   IN  /\ ltv \in {RecomputedLtv(price_cache, positions[th.idx])}
                                     \cup ExchangeLtvs
                       /\ (ltv >= emergency_ltv)
                            => /\ liquidations' =
                                    Append(liquidations,
                                           Liquidation(positions'[th.idx], th.idx))
                               /\ th'.pc \in LiquidationPcs
                       /\ (ltv < emergency_ltv)
                            => /\ ~fired
                               /\ th'.pc = "examine"
                               /\ th'.idx = th.idx + 1
                               /\ positions' = [positions EXCEPT
                                                   ![th.idx].current_ltv = ltv]
           /\ fired => (examined /\ positions'[th.idx].current_ltv >= emergency_ltv)
      ]_vars

\* C9 happens: the pass left a position in the warning band in the list and
\* then invoked the liquidation of a later position at 0.85 or more.
C9_WarnedThenLiquidated ==
    /\ th.pc \in LiquidationPcs
    /\ liquidations # <<>>
    /\ liquidations[Len(liquidations)].ltv >= emergency_ltv
    /\ \E i \in 1..Len(positions) :
          /\ i < th.idx
          /\ positions[i].current_ltv >= warning_ltv
          /\ positions[i].current_ltv < emergency_ltv

\* The position of a liquidation is in the list.
Held(list, liq) ==
    \E i \in 1..Len(list) : list[i].asset = liq.asset /\ list[i].level = liq.level

\* C10, as the specification has it: once the trading thread has ended, a
\* position whose liquidation was invoked is in the list no more, and the
\* snapshot file was rewritten without it.
C10_LiquidatedPositionCleared ==
    (th.pc = "idle")
    => \A k \in 1..Len(liquidations) :
          /\ ~Held(positions, liquidations[k])
          /\ positions_file # <<>>
          /\ ~Held(positions_file[1].positions, liquidations[k])

(***************************************************************************)
(* stop_trading.                                                           *)
(***************************************************************************)
\* The step in which stop_trading returns.
StopReturns == stopper.pc = "closing" /\ stopper'.pc = "idle"

\* The snapshot of a stopped bot that was given the capital total.
StoppedSnapshot(total) == Snapshot(<<>>, total, 0, FALSE, "Stopped")

\* C11: when stop_trading returns and no trading thread was alive since it
\* began, the position list is empty, is_running is false, leveraged_capital
\* and total_yield are 0, the status is 'Stopped', total_capital is what it
\* was and the file holds the snapshot of this state, with an empty list; no
\* step of stop_trading changes total_capital, and when the bot was already
\* in this state the call leaves the fields and the file as they were.
C11_StopClears ==
    /\ [][(StopReturns /\ stopper.quiet) =>
            /\ Snapshot(positions', total_capital', leveraged_capital', is_running',
                        bot_status') = StoppedSnapshot(total_capital)
            /\ total_yield' = 0
            /\ positions_file' = <<StoppedSnapshot(total_capital)>>
            /\ (positions_file = <<StoppedSnapshot(total_capital)>> /\ positions = <<>>
                    /\ leveraged_capital = 0)
                  => UNCHANGED <<positions, counters, total_yield, is_running,
                                 positions_file>>]_vars
    /\ [][stopper' # stopper /\ th' = th => total_capital' = total_capital]_vars

\* C11 witness: stop_trading has answered, no trading thread is alive, and
\* the bot that had been given a capital is stopped with an empty list, in
\* memory and in the file.
C11_StoppedAfterRun ==
    /\ response = Json("/stop", TRUE)
    /\ th.pc = "idle"
    /\ total_capital > 0
    /\ Snapshot(positions, total_capital, leveraged_capital, is_running, bot_status)
          = StoppedSnapshot(total_capital)
    /\ positions_file = <<StoppedSnapshot(total_capital)>>

(***************************************************************************)
(* The monitoring loop and the flag.                                       *)
(***************************************************************************)
\* The places of the trading thread inside the monitoring task.
MonitorPcs == {"monitor", "examine", "liquidate_buy", "liquidate_repay"}

\* How far the monitoring task is: the positions its pass is done with,
\* and whether it is inside the liquidation of the next.
Progress(t) ==
    IF t.pc = "monitor" THEN 0
    ELSE 2 * t.idx + (IF t.pc = "examine" THEN 0 ELSE 1)

C13_ThreadsInterleaveFreely ==
    /\ [](th.pc \in CascadePcs =>
            /\ ENABLED TradingStep
            /\ stopper.pc = "idle" => ENABLED StopBegin
            /\ stopper.pc = "closing" => ENABLED StopStep)
    /\ [][(th.pc \in CascadePcs /\ th' # th) => is_running' = is_running]_vars
    /\ [][stopper'.pc # stopper.pc => th' = th]_vars

\* C13 witness: stop_trading has completed, the status is still 'Stopped' and
\* is_running false, and the cascade has since appended a position and
\* raised leveraged_capital, and goes on to its next level.
C13_CascadeAfterStop ==
    /\ stopper.pc = "idle"
    /\ bot_status = "Stopped"
    /\ ~is_running
    /\ positions # <<>>
    /\ leveraged_capital > 0
    /\ th.pc = "loop"
    /\ positions_file # <<>> /\ positions_file[1].bot_status = "Stopped"
    /\ positions_file[1].positions = positions

(***************************************************************************)
(* A second POST /start.                                                   *)
(***************************************************************************)
\* Whether the list holds two positions of the same asset and level.
Duplicates(list) ==
    \E i, j \in 1..Len(list) :
        i < j /\ list[i].asset = list[j].asset /\ list[i].level = list[j].level

\* C14: a second /start is served whatever positions the bot holds and
\* whether or not is_running is set, and the cascade it runs appends its
\* positions after those already held, with the level and the asset of its
\* own loop and no look at what the list holds.
C14_SecondStartUnguarded ==
    /\ []((started /\ ~again /\ th.pc = "idle") => ENABLED HttpStartAgain)
    /\ [][Len(positions') > Len(positions) =>
            /\ positions' = Append(positions, positions'[Len(positions')])
            /\ positions'[Len(positions')].level = th.level + 1
            /\ positions'[Len(positions')].asset = th.asset]_vars

\* C14 witness: after the second /start the list holds two positions with
\* the same asset and the same level.
C14_DuplicatePositions == again /\ Duplicates(positions)

(***************************************************************************)
(* positions.json across a restart.                                        *)
(***************************************************************************)
\* C15: when the bot is constructed and the file holds a snapshot, the new
\* bot's positions, total_capital and leveraged_capital are the saved ones,
\* and when the snapshot was saved with is_running true the bot is running,
\* its status is 'Resumed (Monitoring)' and a monitoring loop is at its
\* check.
C15_SnapshotRoundTrips ==
    [][(boots' # boots /\ positions_file # <<>>) =>
          /\ positions' = positions_file[1].positions
          /\ total_capital' = positions_file[1].total_capital
          /\ leveraged_capital' = positions_file[1].leveraged_capital
          /\ positions_file[1].is_running =>
                (is_running' /\ bot_status' = "Resumed (Monitoring)"
                    /\ th'.pc = "monitor")]_vars

C17_FailedCloseReported ==
    [][(StopReturns /\ stopper.failed) => response' = Json("/stop", FALSE)]_vars

(***************************************************************************)
(* GET /balances.                                                          *)
(***************************************************************************)
\* C18: with credentials configured, so that the bot exists, every answer of
\* /balances is JSON.
C18_BalancesAnswersJson ==
    [][response'.route = "/balances" => response'.json]_vars

(***************************************************************************)
(* _make_request.                                                          *)
(***************************************************************************)
\* C19: whatever the endpoint, the method, the parameters and the outcome of
\* the HTTP request, _make_request raises nothing and returns the parsed
\* body, and then the response was a 200 with that JSON body, or a dict with
\* an 'error' and a 'message' key.
C19_BodyOrErrorDict ==
    api_call # <<>> =>
        LET call == api_call[1]
        IN  /\ call.result.raised = "none"
            /\ IF call.result.value.parsed
               THEN /\ call.sent /\ call.outcome.raises = "none"
                    /\ call.outcome.status = 200
                    /\ call.outcome.body # "text"
                    /\ call.result.value.body = call.outcome.body
               ELSE {"error", "message"} \subseteq call.result.value.keys

\* C19 witness: a call with a method that is none of the three has come to
\* an error dict, nothing having been sent.
C19_UnsupportedMethodGivesDict ==
    /\ api_call # <<>>
    /\ api_call[1].method = "PUT"
    /\ ~api_call[1].sent
    /\ api_call[1].result.raised = "none"
    /\ api_call[1].result.value = ErrorDict("exception", {"error", "message"})

\* The parameters of a prepared call without the signature.
Unsigned(params) == SelectSeq(params, LAMBDA kv : kv[1] # "signature")

\* The keys of a parameter map.
Keys(params) == {params[i][1] : i \in 1..Len(params)}

\* The place of a key in a parameter map.
Place(params, k) == CHOOSE i \in 1..Len(params) : params[i][1] = k

\* C20: an authenticated call (require_auth given as true, or not given and
\* the endpoint not public) carries the timestamp of the call, a signature
\* that is the HMAC of the query string of exactly its other parameters, and
\* the API key header; a call to a public endpoint with no require_auth
\* carries the caller's parameters only, and no header.
C20_SignedOrBare ==
    api_call # <<>> =>
        LET call == api_call[1]
            to_send == call.prepared.params
        IN  /\ (call.require_auth = <<TRUE>>
                    \/ (call.require_auth = <<>> /\ call.endpoint \notin public_endpoints))
                => /\ {"timestamp", "signature"} \subseteq Keys(to_send)
                   /\ to_send[Place(to_send, "timestamp")][2] = ToString(call.now)
                   /\ to_send[Place(to_send, "signature")][2] =
                         _generate_signature(api_secret, QueryString(Unsigned(to_send)))
                   /\ call.prepared.headers = {<<"X-MBX-APIKEY", api_key>>}
            /\ (call.require_auth = <<>> /\ call.endpoint \in public_endpoints)
                => /\ to_send = call.params
                   /\ Keys(to_send) \cap {"timestamp", "signature"} = {}
                   /\ call.prepared.headers = {}

\* C20 witness: a call to an endpoint that is not public, with parameters of
\* its own and no require_auth, has been sent signed.
C20_SignedCallSent ==
    /\ api_call # <<>>
    /\ api_call[1].sent
    /\ api_call[1].endpoint = "/api/v3/order"
    /\ api_call[1].require_auth = <<>>
    /\ Len(api_call[1].params) = 2
    /\ Len(api_call[1].prepared.params) = 5

(***************************************************************************)
(* C21: get_portfolio_status raises no division error; with a              *)
(* total_capital of 0 it reports leverage_ratio 0 and total_yield 0        *)
(* whatever the position list is, and with a total_capital above 0 its     *)
(* leverage_ratio is the total collateral value over total_capital.        *)
(***************************************************************************)
StatusCalls == {calls[i] : i \in 1..Len(calls)}

C21_StatusDividesGuarded ==
    \A call \in StatusCalls :
        /\ call.result.raised = "none"
        /\ call.total_capital = 0 =>
              /\ call.result.value.leverage_ratio = 0
              /\ call.result.value.total_yield = 0
        /\ call.total_capital > 0 =>
              call.result.value.leverage_ratio
                  = (TotalCollateralValue(call.cache, call.positions) * 10000)
                        \div call.total_capital

\* The status of a bot that holds three positions and has no capital on
\* record.
C21_StatusWithoutCapital ==
    \E call \in StatusCalls :
        /\ call.total_capital = 0
        /\ Len(call.positions) = 3
        /\ TotalCollateralValue(call.cache, call.positions) > 0
        /\ call.result = Returns(call.result.value)
        /\ call.result.value.leverage_ratio = 0

Repayments == {"margin_repay", "repay_crypto_loan"}

C23_SellOnlyAfterRepaid ==
    \A i \in 1..Len(calls) :
        \A k \in 1..Len(calls[i].requests) :
            calls[i].requests[k].req = "sell" =>
                \E j \in 1..(k - 1) :
                    /\ calls[i].requests[j].req \in Repayments
                    /\ calls[i].requests[j].ok

(***************************************************************************)
(* C26: no unwinding sends a crypto-loan repay request with 'MARGIN' as    *)
(* the order id: a position opened through margin is repaid through the    *)
(* margin repay endpoint, by stop_trading and by emergency liquidation.    *)
(***************************************************************************)
C26_MarginNeverRepaidAsLoan ==
    \A i \in 1..Len(calls) :
        \A k \in 1..Len(calls[i].requests) :
            LET request == calls[i].requests[k]
            IN  /\ ~(request.req = "repay_crypto_loan" /\ request.arg = "MARGIN")
                /\ calls[i].position.loan_order_id = "MARGIN"
                       => request.req \notin Repayments \/ request.req = "margin_repay"

(***************************************************************************)
(* C24: when the cascade treats a level as failed (the level returned      *)
(* success false, or a loan amount that is not above 0) and stops, the     *)
(* position list holds no position that this level created.                *)
(***************************************************************************)
C24_FailedLevelLeftNoPosition ==
    (th.pc = "after_level" /\ ~LevelSucceeded(th.ret)) =>
        \A i \in 1..Len(positions) : positions[i].level # th.level + 1

(***************************************************************************)
(* C25: a monitoring pass examines every position of the list: when the    *)
(* pass ends, each position has had its LTV recomputed and compared with   *)
(* the thresholds, also when an earlier position was handed to the         *)
(* emergency liquidation.                                                  *)
(***************************************************************************)
\* The positions the pass has looked at: those before th.idx, and the one at
\* th.idx once it is being liquidated.
Examined(t) == IF t.pc = "examine" THEN t.idx - 1 ELSE t.idx

C25_PassExaminesEveryPosition ==
    [][(th.pc \in {"examine"} \cup LiquidationPcs /\ th'.pc = "cancelled")
          => Examined(th) >= Len(positions)]_vars

(***************************************************************************)
(* C27: the purchase of a cascade level never costs more than the capital  *)
(* of the level: the quantity that _format_quantity returned and the       *)
(* exchange accepted, times the price used, is at most that capital,       *)
(* whatever the LOT_SIZE filter.                                           *)
(***************************************************************************)
C27_PurchaseWithinCapital ==
    \A i \in 1..Len(run_log) :
        \A k \in 1..Len(run_log[i].reqs) :
            (run_log[i].reqs[k].req = "buy" /\ run_log[i].reqs[k].ok) =>
                run_log[i].reqs[k].qty * _get_asset_price(price_cache, run_log[i].asset)
                    <= run_log[i].capital


(***************************************************************************)
(* C28: when the validation of start_trading fails, no order is placed and *)
(* positions, total_capital, leveraged_capital and is_running keep their   *)
(* values; bot_status becomes 'Error: ...' and the exception is re-raised, *)
(* which ends the thread.                                                  *)
(***************************************************************************)
C28_FailedValidationChangesStatusOnly ==
    [][(th.pc = "validate" /\ th'.pc = "idle") =>
          /\ UNCHANGED <<positions, total_capital, leveraged_capital, is_running>>
          /\ UNCHANGED <<run_log, errors, caches>>
          /\ bot_status' = "Error:"
          /\ th' = IdleThread]_vars

\* A second POST /start was refused by the validation while the bot held the
\* positions of the first and was flagged as running.
C28_RefusedWithPositionsHeld ==
    /\ again
    /\ th.pc = "idle"
    /\ bot_status = "Error:"
    /\ positions # <<>>
    /\ ~Duplicates(positions)
    /\ is_running
    /\ total_capital > 0

(***************************************************************************)
(* C29: when no operation is in progress, a bot whose status is 'Stopped', *)
(* 'Error' or begins with 'Error:' is not flagged as running.              *)
(***************************************************************************)
C29_NotRunningWhenStoppedOrError ==
    (th.pc = "idle" /\ stopper.pc = "idle") =>
        (bot_status \in {"Stopped", "Error", "Error:"} => ~is_running)

(***************************************************************************)
(* C30: when start_trading finishes with the status 'Active Earn           *)
(* Positions', its run created at least one position: a cascade whose      *)
(* first level failed, or whose capital was below the floor, does not end  *)
(* in that status.                                                         *)
(***************************************************************************)
C30_ActiveAfterPositionCreated ==
    [][(th.pc = "cascade_done" /\ th'.pc = "monitor" /\ bot_status' = "Active Earn Positions")
          => \E i \in 1..Len(run_log) : run_log[i].appended]_vars

(***************************************************************************)
(* C31: stop_trading closes the positions in the reverse of the order in   *)
(* which they were appended, every position once and one close finished    *)
(* before the next begins; and the requests of the close of a crypto-loan  *)
(* position come in the order repay loan, redeem savings, sell collateral. *)
(***************************************************************************)
\* The index of a position in a list that holds it.
IndexIn(list, position) == CHOOSE i \in 1..Len(list) : list[i] = position

\* The place of a request in the close of a crypto-loan position.
Rank(req) ==
    CASE req = "buy" -> 0 [] req = "repay_crypto_loan" -> 1 [] req = "redeem" -> 2
      [] req = "sell" -> 3 [] OTHER -> 4

C31_ClosesInReverseOrder ==
    \A c \in 1..Len(calls) :
        LET list == calls[c].positions
            requests == calls[c].requests
        IN  /\ \A i \in 1..Len(list) :
                  \E k \in 1..Len(requests) :
                      requests[k].position = list[i] /\ requests[k].request.req = "sell"
            /\ \A k1, k2 \in 1..Len(requests) :
                  k1 < k2 =>
                      /\ IndexIn(list, requests[k1].position)
                            >= IndexIn(list, requests[k2].position)
                      /\ (requests[k1].position = requests[k2].position
                          /\ requests[k1].position.loan_order_id # "MARGIN")
                         => (/\ Rank(requests[k1].request.req) < Rank(requests[k2].request.req)
                             /\ Rank(requests[k2].request.req) <= 3)

\* A stop of two positions, the second a loan in USDC on a subscribed
\* product: its four requests come first and end with the sale, and the
\* requests of the first position follow.
C31_DeepestLevelClosedFirst ==
    \E c \in 1..Len(calls) :
        LET list == calls[c].positions
            requests == calls[c].requests
        IN  /\ Len(list) = 2
            /\ list[2].loan_asset = "USDC" /\ list[2].earn_product_id = "id"
            /\ Len(requests) >= 7
            /\ \A k \in 1..4 : requests[k].position = list[2]
            /\ <<requests[1].request.req, requests[2].request.req,
                 requests[3].request.req, requests[4].request.req>>
                  = <<"buy", "repay_crypto_loan", "redeem", "sell">>
            /\ \A k \in 5..Len(requests) : requests[k].position = list[1]

(***************************************************************************)
(* C32: level k of a run uses the k-th of the available assets in          *)
(* ascending order of volatility_factor: an asset that is available and    *)
(* not used by the levels so far is never less volatile than the asset of  *)
(* the level.  So no two levels of a run use the same asset, USDT is never *)
(* the collateral, and the asset of a level has a positive price and, in   *)
(* earn mode, a savings product.                                           *)
(***************************************************************************)
\* The assets of the levels 1 to k of the run.
UsedUpTo(k) == {run_log[j].asset : j \in 1..k}

C32_LevelsWalkSortedAssets ==
    \A k \in 1..Len(run_log) :
        LET asset == run_log[k].asset
        IN  /\ asset \in ConfigAssets \ {"USDT"}
            /\ _get_asset_price(price_cache, asset) > 0
            /\ ~use_margin_only => asset \in DOMAIN savings_products_cache
            /\ \A j \in 1..(k - 1) :
                  /\ run_log[j].asset # asset
                  /\ volatility_factor(run_log[j].asset) <= volatility_factor(asset)
            /\ \A other \in ConfigAssets \ UsedUpTo(k) :
                  IsAvailable(price_cache, savings_products_cache, use_margin_only, other)
                      => volatility_factor(other) >= volatility_factor(asset)

\* A run in earn mode with a price for USDC, the least volatile asset, and no
\* savings product for it: its levels use BTC, ETH and BNB in this order.
C32_UnsubscribableAssetPassedOver ==
    /\ ~use_margin_only
    /\ _get_asset_price(price_cache, "USDC") > 0
    /\ "USDC" \notin DOMAIN savings_products_cache
    /\ Len(run_log) = 3
    /\ <<run_log[1].asset, run_log[2].asset, run_log[3].asset>> = <<"BTC", "ETH", "BNB">>
    /\ run_log[1].appended /\ run_log[2].appended

(***************************************************************************)
(* C33: _get_optimal_loan_asset returns, among the borrowing assets whose  *)
(* cached limits for the collateral contain the loan amount, the one with  *)
(* the lowest effective rate (the yearly rate, plus 0.02 for an asset      *)
(* other than USDT and USDC), the earliest in borrowing_assets on a tie,   *)
(* with that rate; and ('USDT', 0.10) when no asset qualifies.             *)
(***************************************************************************)
\* The places in borrowing_assets of the assets that qualify at a call.
Qualifying(call) ==
    {i \in 1..Len(borrowing_assets) :
        LET key == <<call.collateral_asset, borrowing_assets[i]>>
        IN  /\ key \in DOMAIN call.loan_data_cache
            /\ call.loan_data_cache[key].min_limit <= call.loan_amount
            /\ call.loan_amount <= call.loan_data_cache[key].max_limit}

\* The effective rate at a call of the asset at place i.
EffectiveRate(call, i) ==
    call.loan_data_cache[<<call.collateral_asset, borrowing_assets[i]>>].yearly_rate
        + (IF borrowing_assets[i] \in {"USDT", "USDC"} THEN 0 ELSE rate_penalty)

C33_CheapestQualifyingLoanAsset ==
    \A c \in 1..Len(calls) :
        LET call == calls[c]
        IN  IF Qualifying(call) = {}
            THEN call.result = <<"USDT", default_loan_rate>>
            ELSE \E i \in Qualifying(call) :
                    /\ call.result = <<borrowing_assets[i], EffectiveRate(call, i)>>
                    /\ \A j \in Qualifying(call) :
                          \/ EffectiveRate(call, i) < EffectiveRate(call, j)
                          \/ EffectiveRate(call, i) = EffectiveRate(call, j) /\ i <= j

\* USDT, USDC and DAI qualify; DAI has the lowest listed rate and, with its
\* penalty, the rate of USDC, which comes first and is returned.
C33_TieGoesToEarlierAsset ==
    \E c \in 1..Len(calls) :
        LET call == calls[c]
        IN  /\ Qualifying(call) = {1, 2, 4}
            /\ EffectiveRate(call, 4) = EffectiveRate(call, 2)
            /\ EffectiveRate(call, 2) < EffectiveRate(call, 1)
            /\ call.result = <<"USDC", EffectiveRate(call, 2)>>

====
